---------------------------- MODULE Spec2Model ----------------------------
(***************************************************************************)
(* CDC-ECM USB function driver (drivers/usbdev/cdcecm.c).                  *)
(*                                                                         *)
(* The driver instance is modelled field by field.  Handlers that run in   *)
(* the controller's interrupt context (cdcecm_setup, cdcecm_disconnect,    *)
(* cdcecm_rdcomplete, cdcecm_wrcomplete) are single actions; the two work  *)
(* queue callbacks (cdcecm_interrupt_work, cdcecm_txavail_work) run on     *)
(* worker threads and are split at every point where they block (net_lock, *)
(* nxsem_wait) or where they read a flag an interrupt may change.          *)
(*                                                                         *)
(* The USB device controller (EP_CONFIGURE, EP_SUBMIT, EP_DISABLE) and the *)
(* network stack (devif_poll, ipv4_input, ...) are collaborators: their    *)
(* choices are inputs of the actions.                                      *)
(*                                                                         *)
(* lastOp is a history variable: it records the control-path handler that  *)
(* has just run, until that handler returns.                               *)
(***************************************************************************)
EXTENDS Integers, Sequences, FiniteSets, TLC

(* ----------------------------- bounds ---------------------------------- *)

\* Longest Ethernet frame of the model, in abstract length units.
MaxFrameLen == 1

(* ------------------------ program constants ---------------------------- *)

CDCECM_CONFIGID_NONE == 0
CDCECM_CONFIGID      == 1

\* EIO stands for whatever negative result the controller gives a call it
\* rejects.
OK        == 0
EIO       == 5
EINVAL    == 22
EOPNOTSUPP == 95
ENOTSUP == 138
ESHUTDOWN == 108

\* uint8_t modulus
U8 == 256

\* uint16_t modulus
U16 == 65536

\* usbdev.h and usb.h
USB_SPEED_UNKNOWN    == 0
USB_SPEED_LOW        == 1
USB_SPEED_FULL       == 2
USB_SPEED_HIGH       == 3
USB_SPEED_SUPER      == 5
USB_SPEED_SUPER_PLUS == 6

USB_DESC_TYPE_DEVICE           == 1
USB_DESC_TYPE_CONFIG           == 2
USB_DESC_TYPE_STRING           == 3
USB_DESC_TYPE_INTERFACE        == 4
USB_DESC_TYPE_OTHERSPEEDCONFIG == 7

\* Descriptor sizes (usb.h, cdc.h).  The descriptor structures have byte
\* members only, so sizeof(struct usb_epdesc_s) is USB_SIZEOF_EPDESC and
\* sizeof(struct usb_ss_epcompdesc_s) is USB_SIZEOF_SS_EPCOMPDESC.
USB_SIZEOF_DEVDESC       == 18
USB_SIZEOF_CFGDESC       == 9
USB_SIZEOF_IADDESC       == 8
USB_SIZEOF_IFDESC        == 9
USB_SIZEOF_EPDESC        == 7
USB_SIZEOF_SS_EPCOMPDESC == 6
SIZEOF_HDR_FUNCDESC      == 5
SIZEOF_UNION_FUNCDESC_1  == 5
SIZEOF_ECM_FUNCDESC      == 13

\* cdcecm.h
CDCECM_MAXSTRLEN    == 118
CDCECM_STR_LANGUAGE == 1033

Speeds == {USB_SPEED_UNKNOWN, USB_SPEED_LOW, USB_SPEED_FULL, USB_SPEED_HIGH,
           USB_SPEED_SUPER, USB_SPEED_SUPER_PLUS}

\* The build: CONFIG_USBDEV_SUPERSPEED, CONFIG_USBDEV_DUALSPEED,
\* CONFIG_CDCECM_COMPOSITE without ("plain") or with CONFIG_COMPOSITE_IAD
\* ("iad"), CONFIG_BOARD_USBDEV_SERIALSTR; net: the Ethernet types of the
\* protocols the network stack is built with (CONFIG_NET_IPv4,
\* CONFIG_NET_IPv6, CONFIG_NET_ARP).
DualStack == {"IP", "IP6", "ARP"}
Builds == [superspeed : BOOLEAN, dualspeed : BOOLEAN,
           composite : {"no", "plain", "iad"}, serialstr : BOOLEAN,
           net : {DualStack}]

Endpoints == {"epint", "epbulkin", "epbulkout"}

\* Ethernet type field of a received frame (BUF->type)
EthTypes == {"IP", "IP6", "ARP", "OTHER"}

\* A buffer content: the Ethernet type and the length of the frame that was
\* copied into it.  NoFrame is a buffer nothing was copied into yet.
Frames  == [type : EthTypes, len : 1..MaxFrameLen]
NoFrame == [type |-> "NONE", len |-> 0]

\* No frame is being received.
NoRx == [type |-> "NONE", reply |-> 0, reads |-> 0, writes |-> 0]

\* wValue of the SET_CONFIGURATION requests the host sends: the two valid
\* ids, an unsupported id, and a value whose low byte is a valid id but
\* whose high byte is not zero.
ConfigValues == {0, 1, 2, U8}

\* Which step of cdcecm_setconfig the controller lets fail.
FailPoints == {"none", "epint", "epbulkin", "epbulkout", "submit"}

\* Frames the host sends on bulk-OUT.
RxTypes  == {"ARP"}
RxFrames == {f \in Frames : f.type \in RxTypes}

\* Frames the stack hands to the driver in devif_poll.
TxTypes == {"ARP"}

VARIABLES
  config,      \* self->config
  epen,        \* endpoint -> configured (enabled) in the controller
  rdOut,       \* submissions of rdreq on bulk-OUT not yet completed
  rdBuf,       \* rdreq->buf / rdreq->xfrd of the completed read
  rxpending,   \* self->rxpending
  wrOut,       \* submissions of wrreq on bulk-IN not yet completed
  wrBuf,       \* wrreq->buf / wrreq->len
  wrClobber,   \* history: wrreq->buf was written while wrreq was outstanding
  wrShutdown,  \* history: an endpoint disable completed an outstanding write
               \* and no configuration was established since
  wrreq_idle,  \* count of the semaphore self->wrreq_idle
  txdone,      \* self->txdone
  bifup,       \* self->bifup
  iffup,       \* IFF_UP in self->dev.d_flags
  d_buf,       \* self->dev.d_buf: Ethernet type of the frame it holds
  d_len,       \* self->dev.d_len
  irqwork,     \* self->irqwork is queued
  pollwork,    \* self->pollwork is queued
  pcIrq,       \* position of the worker thread running cdcecm_interrupt_work
  pcPoll,      \* position of the worker thread running cdcecm_txavail_work
  netlock,     \* holder of net_lock(): "free", "irq" or "poll"
  lastOp,      \* history: the control-path handler that ran in the last step
  handle,      \* resource -> self->ctrlreq, epint, ... is allocated (not NULL)
  allocs,      \* history: resource -> allocations the controller has granted
  frees,       \* history: resource -> times it was given back to the controller
  lastBind,    \* history: the last of cdcecm_bind / cdcecm_unbind and its result
  dreq,        \* descriptor builder: the function called and its arguments
  dres,        \* descriptor builder: what the call returned and wrote
  speed,       \* self->usbdev.speed
  build,       \* the configuration options the driver was compiled with
  rxWork,      \* history: the frame cdcecm_interrupt_work is receiving, with
               \* the submissions it has made for it
  g_syslog_channel,  \* the table of SYSLOG channels, NULL in a free slot
  debugAssertions,   \* CONFIG_DEBUG_ASSERTIONS: DEBUGASSERT is compiled in
  lastChannelOp      \* history: the last call on the channel table

vars == <<config, epen, rdOut, rdBuf, rxpending, wrOut, wrBuf, wrClobber,
          wrShutdown, wrreq_idle, txdone, bifup, iffup, d_buf, d_len,
          irqwork, pollwork, pcIrq, pcPoll, netlock, lastOp,
          handle, allocs, frees, lastBind, dreq, dres, speed, build,
          rxWork, g_syslog_channel, debugAssertions, lastChannelOp>>

\* What the descriptor builder works on.
descVars == <<dreq, dres>>

\* What the controller's bind and unbind calls work on.
bindVars == <<handle, allocs, frees, lastBind>>

syslogVars == <<g_syslog_channel, debugAssertions, lastChannelOp>>

\* The variables no handler of a bound driver touches.
aside == <<bindVars, descVars, build, syslogVars>>

\* With the speed, which only cdcecm_setup records, and the history of the
\* receive path.
otherVars == <<aside, speed, rxWork>>

\* The fields the interrupt-context handlers work on, as one record.
Self == [config |-> config, epen |-> epen, rdOut |-> rdOut, rdBuf |-> rdBuf,
         rxpending |-> rxpending, wrOut |-> wrOut, wrShutdown |-> wrShutdown,
         wrreq_idle |-> wrreq_idle, txdone |-> txdone, bifup |-> bifup,
         iffup |-> iffup, irqwork |-> irqwork, speed |-> speed,
         calls |-> <<>>]

Commit(s) ==
  /\ config' = s.config
  /\ epen' = s.epen
  /\ rdOut' = s.rdOut
  /\ rdBuf' = s.rdBuf
  /\ rxpending' = s.rxpending
  /\ wrOut' = s.wrOut
  /\ wrShutdown' = s.wrShutdown
  /\ wrreq_idle' = s.wrreq_idle
  /\ txdone' = s.txdone
  /\ bifup' = s.bifup
  /\ iffup' = s.iffup
  /\ irqwork' = s.irqwork

\* History record: the handler, the wValue or result it was called with,
\* self->config when it was called, what it returned, and whether it made
\* its submission (the reply on ep0, the read request, the poll work).
Op(name, arg, was, ret, reply) ==
  [op |-> name, arg |-> arg, was |-> was, ret |-> ret, reply |-> reply]

NoOp == Op(<<"none", "none">>, 0, 0, 0, FALSE)

\* The bmRequestType class and the request code of the setup packet handled.
Request(ctype, req) == <<ctype, req>>

\* cdcecm_setup and cdcecm_disconnect leave a history record, which is kept
\* until the handler has returned to the controller's interrupt code; nothing
\* else runs before that.  No other step leaves a record.
NoHistory == lastOp = NoOp /\ lastOp' = NoOp

Call(s, name) == [s EXCEPT !.calls = Append(@, name)]

Range(seq) == {seq[i] : i \in DOMAIN seq}

\* cdcecm_classobject: the instance is zeroed, the interface is down, the
\* speed is the highest the build supports.
Constructed ==
  /\ speed = (IF build.superspeed THEN USB_SPEED_SUPER
              ELSE IF build.dualspeed THEN USB_SPEED_HIGH
              ELSE USB_SPEED_FULL)
  /\ config = CDCECM_CONFIGID_NONE
  /\ epen = [e \in Endpoints |-> FALSE]
  /\ rdOut = 0
  /\ rdBuf = NoFrame
  /\ rxpending = FALSE
  /\ wrOut = 0
  /\ wrBuf = NoFrame
  /\ wrClobber = FALSE
  /\ wrShutdown = FALSE
  /\ txdone = FALSE
  /\ bifup = FALSE
  /\ iffup = FALSE
  /\ d_buf = "NONE"
  /\ d_len = 0
  /\ irqwork = FALSE
  /\ pollwork = FALSE
  /\ pcIrq = "idle"
  /\ pcPoll = "idle"
  /\ netlock = "free"
  /\ lastOp = NoOp
  /\ rxWork = NoRx

\* The resources cdcecm_bind allocates, and what the controller and
\* nxsem_init answer during one cdcecm_bind: whether each allocation is
\* granted and whether the semaphore is initialised.
Resources == {"ctrlreq", "epint", "epbulkin", "epbulkout", "rdreq", "wrreq"}
BindOutcomes == [Resources \cup {"wrreq_idle"} -> BOOLEAN]
AllGranted == [r \in Resources \cup {"wrreq_idle"} |-> TRUE]

\* History record of cdcecm_bind / cdcecm_unbind.
BindOp(name, out, ret) == [op |-> name, out |-> out, ret |-> ret]

\* NULL in a slot of the channel table.
NULL == 0

\* &g_default_channel
DefaultChannel == 1

\* g_syslog_channel as initialised: the default channel in the first of
\* CONFIG_SYSLOG_MAX_CHANNELS slots.
BootTable(nslots) ==
  [i \in 1..nslots |-> IF i = 1 THEN DefaultChannel ELSE NULL]

\* History record of syslog_channel / syslog_channel_remove: the function,
\* its argument, the table before the call, the value returned, and
\* whether the call stopped in a DEBUGASSERT instead of returning.
ChannelOp(name, channel, was, ret, asserted) ==
  [op |-> name, channel |-> channel, was |-> was, ret |-> ret,
   asserted |-> asserted]

NoChannelOp == ChannelOp("none", NULL, <<>>, OK, FALSE)

\* The channel table of a build with one slot and without debug
\* assertions, on which nothing was called.
SyslogBooted ==
  /\ g_syslog_channel = BootTable(1)
  /\ debugAssertions = FALSE
  /\ lastChannelOp = NoChannelOp

\* No descriptor is being built.
NoDescriptor == [fn |-> "none"]
BuilderIdle == dreq = NoDescriptor /\ dres = NoDescriptor

\* The driver after cdcecm_classobject and a cdcecm_bind in which every
\* allocation was granted: wrreq_idle is initialised to 1.
InitBound ==
  /\ Constructed
  /\ wrreq_idle = 1
  /\ handle = [r \in Resources |-> TRUE]
  /\ allocs = [r \in Resources |-> 1]
  /\ frees = [r \in Resources |-> 0]
  /\ lastBind = BindOp("bind", AllGranted, OK)

\* A stand-alone (not composite) build for a dual-speed controller.
StandAlone == [superspeed |-> FALSE, dualspeed |-> TRUE, composite |-> "no",
               net |-> DualStack,
               serialstr |-> FALSE]

Init == build = StandAlone /\ InitBound /\ BuilderIdle /\ SyslogBooted


(* ------------------- USB device controller (collaborator) -------------- *)

\* EP_CONFIGURE(ep, desc, last): the endpoint is enabled when the controller
\* accepts the descriptor (ok), and left as it was when it does not.
EP_CONFIGURE(s, ep, ok) ==
  LET s1 == Call(s, <<"EP_CONFIGURE", ep>>)
  IN  IF ok THEN [s1 EXCEPT !.epen[ep] = TRUE] ELSE s1

\* EP_SUBMIT(epbulkout, rdreq): the request is queued when the endpoint is
\* enabled and the controller accepts it (ok); otherwise an error is returned
\* and nothing is queued.
SubmitRead(s, ok) ==
  LET s1 == Call(s, <<"EP_SUBMIT", "epbulkout">>)
  IN  IF ok /\ s.epen["epbulkout"]
        THEN [s1 EXCEPT !.rdOut = @ + 1]
        ELSE s1

(* --------------------------- completion handlers ----------------------- *)

\* work_queue(ETHWORK, &self->irqwork, cdcecm_interrupt_work, self, 0)
QueueIrqWork(s) == [s EXCEPT !.irqwork = TRUE]

\* cdcecm_rdcomplete whose default branch also flags the read as pending
\* and queues cdcecm_interrupt_work.
cdcecm_rdcomplete_dispatch(s, result, frame, resubmit) ==
  IF result = OK
    THEN [s EXCEPT !.rdBuf = frame, !.rxpending = TRUE, !.irqwork = TRUE]
  ELSE IF result = -ESHUTDOWN
    THEN s
  ELSE [SubmitRead(s, resubmit) EXCEPT !.rxpending = TRUE, !.irqwork = TRUE]

\* cdcecm_rdcomplete, the request already taken off the endpoint's queue.
\* resubmit: whether the controller accepts the EP_SUBMIT of the error branch.
cdcecm_rdcomplete(s, result, frame, resubmit) ==
  IF result = OK
    THEN LET s1 == IF s.rxpending THEN Call(s, <<"ASSERT_FAIL", "rxpending">>)
                   ELSE s
         IN  QueueIrqWork([s1 EXCEPT !.rdBuf = frame, !.rxpending = TRUE])
  ELSE IF result = -ESHUTDOWN
    THEN s
  ELSE SubmitRead(s, resubmit)

\* cdcecm_wrcomplete: nxsem_post(&self->wrreq_idle), txdone, work_queue.
cdcecm_wrcomplete(s) ==
  QueueIrqWork([s EXCEPT !.wrreq_idle = @ + 1, !.txdone = TRUE])

RECURSIVE ShutdownWrites(_, _)
\* The controller completes n outstanding writes with -ESHUTDOWN.
ShutdownWrites(s, n) ==
  IF n = 0 THEN s
  ELSE ShutdownWrites(
         cdcecm_wrcomplete([s EXCEPT !.wrOut = @ - 1, !.wrShutdown = TRUE]),
         n - 1)

\* EP_DISABLE(ep): the endpoint is disabled and every request in flight on it
\* is completed with -ESHUTDOWN through its callback: cdcecm_wrcomplete on
\* bulk-IN, cdcecm_rdcomplete (which does nothing for that result) on bulk-OUT.
EP_DISABLE(s, ep) ==
  LET s1 == [Call(s, <<"EP_DISABLE", ep>>) EXCEPT !.epen[ep] = FALSE]
  IN  CASE ep = "epbulkin"  -> ShutdownWrites(s1, s1.wrOut)
        [] ep = "epbulkout" -> [s1 EXCEPT !.rdOut = 0]
        [] OTHER            -> s1

(* --------------------------- network callbacks ------------------------- *)

\* cdcecm_ifup: returns OK
cdcecm_ifup(s) == [Call(s, <<"d_ifup">>) EXCEPT !.bifup = TRUE]

\* cdcecm_ifdown: returns OK
cdcecm_ifdown(s) == [Call(s, <<"d_ifdown">>) EXCEPT !.bifup = FALSE]

(* ------------------------- configuration state machine ----------------- *)

\* The name of a value of self->config.
ConfigName(cfg) == IF cfg = CDCECM_CONFIGID_NONE THEN "NONE" ELSE "ACTIVE"

\* self->config = cfg
SetConfig(s, cfg) ==
  Call([s EXCEPT !.config = cfg], <<"config", ConfigName(cfg)>>)

\* cdcecm_resetconfig that disables the endpoints before it reports the
\* link down.
cdcecm_resetconfig_late(s) ==
  IF s.config # CDCECM_CONFIGID_NONE
    THEN LET s1 == SetConfig(s, CDCECM_CONFIGID_NONE)
             s2 == EP_DISABLE(s1, "epint")
             s3 == EP_DISABLE(s2, "epbulkin")
             s4 == EP_DISABLE(s3, "epbulkout")
         IN  cdcecm_ifdown(s4)
    ELSE s

cdcecm_resetconfig(s) ==
  IF s.config # CDCECM_CONFIGID_NONE
    THEN LET s1 == SetConfig(s, CDCECM_CONFIGID_NONE)
             s2 == cdcecm_ifdown(s1)
             s3 == EP_DISABLE(s2, "epint")
             s4 == EP_DISABLE(s3, "epbulkin")
         IN  EP_DISABLE(s4, "epbulkout")
    ELSE s

\* The body of cdcecm_setconfig from the first EP_CONFIGURE on.  fail names
\* the step the controller rejects ("none": it accepts them all).
ConfigureEndpoints(s, cfg, fail) ==
  LET error(st) == [st |-> cdcecm_resetconfig(st), ret |-> -EIO]
      s1 == EP_CONFIGURE(s, "epint", fail # "epint")
      s2 == EP_CONFIGURE(s1, "epbulkin", fail # "epbulkin")
      s3 == EP_CONFIGURE(s2, "epbulkout", fail # "epbulkout")
      s4 == IF s3.rxpending THEN Call(s3, <<"ASSERT_FAIL", "rxpending">>)
            ELSE s3
      s5 == SubmitRead(s4, fail # "submit")
      s6 == SetConfig([s5 EXCEPT !.wrShutdown = FALSE], cfg)
      s7 == cdcecm_ifup(Call(s6, <<"d_mac">>))
  IN  IF fail = "epint" THEN error(s1)
      ELSE IF fail = "epbulkin" THEN error(s2)
      ELSE IF fail = "epbulkout" THEN error(s3)
      ELSE IF fail = "submit" THEN error(s5)
      ELSE [st |-> [s7 EXCEPT !.iffup = TRUE], ret |-> OK]

\* cdcecm_setconfig without the early return for the current configuration.
cdcecm_setconfig_noShortcut(s, cfg, fail) ==
  LET s1 == cdcecm_resetconfig(s)
  IN  IF cfg = CDCECM_CONFIGID_NONE THEN [st |-> s1, ret |-> OK]
      ELSE IF cfg # CDCECM_CONFIGID THEN [st |-> s1, ret |-> -EINVAL]
      ELSE ConfigureEndpoints(s1, cfg, fail)

\* cdcecm_setconfig(self, config): config is the uint8_t parameter.
cdcecm_setconfig(s, cfg, fail) ==
  IF cfg = s.config THEN [st |-> s, ret |-> OK]
  ELSE LET s1 == cdcecm_resetconfig(s)
       IN  IF cfg = CDCECM_CONFIGID_NONE THEN [st |-> s1, ret |-> OK]
           ELSE IF cfg # CDCECM_CONFIGID THEN [st |-> s1, ret |-> -EINVAL]
           ELSE ConfigureEndpoints(s1, cfg, fail)

(* ---------------------------- descriptor builder ----------------------- *)

\* Longest source string the builder is given.
MaxStrLen == 61

\* cdcecm_mkepdesc: the length returned, and the number of bytes written
\* behind epdesc (none in the size-only pass, epdesc == NULL).
cdcecm_mkepdesc(epidx, fill, spd, bld) ==
  LET len == USB_SIZEOF_EPDESC +
             IF bld.superspeed /\ spd \in {USB_SPEED_SUPER,
                                               USB_SPEED_SUPER_PLUS,
                                               USB_SPEED_UNKNOWN}
               THEN USB_SIZEOF_SS_EPCOMPDESC ELSE 0
      epcompdesc == IF bld.superspeed /\ spd \in {USB_SPEED_SUPER,
                                                      USB_SPEED_SUPER_PLUS}
                      THEN USB_SIZEOF_SS_EPCOMPDESC ELSE 0
  IN  [ret |-> len,
       wrote |-> IF fill THEN USB_SIZEOF_EPDESC + epcompdesc ELSE 0]

\* cdcecm_mkcfgdesc: the length returned, and the number of bytes written
\* behind desc (none in the size-only pass, desc == NULL).
cdcecm_mkcfgdesc(fill, spd, type, bld) ==
  LET sp == IF type = USB_DESC_TYPE_OTHERSPEEDCONFIG /\ spd < USB_SPEED_SUPER
              THEN (IF spd = USB_SPEED_HIGH THEN USB_SPEED_FULL
                                              ELSE USB_SPEED_HIGH)
              ELSE spd
      head == IF bld.composite = "no" THEN USB_SIZEOF_CFGDESC
              ELSE IF bld.composite = "iad" THEN USB_SIZEOF_IADDESC
              ELSE 0
      comm == USB_SIZEOF_IFDESC + SIZEOF_HDR_FUNCDESC
                + SIZEOF_UNION_FUNCDESC_1 + SIZEOF_ECM_FUNCDESC
      data == USB_SIZEOF_IFDESC + USB_SIZEOF_IFDESC
      intin   == cdcecm_mkepdesc("epint", fill, sp, bld)
      bulkin  == cdcecm_mkepdesc("epbulkin", fill, sp, bld)
      bulkout == cdcecm_mkepdesc("epbulkout", fill, sp, bld)
  IN  [ret |-> head + comm + intin.ret + data + bulkin.ret + bulkout.ret,
       wrote |-> IF fill
                   THEN head + comm + intin.wrote + data + bulkin.wrote
                          + bulkout.wrote
                   ELSE 0]

\* The strings the driver describes: id 0 carries the language id; the
\* vendor, product and board serial strings are configured; the others are
\* literals in cdcecm_mkstrdesc.  A string is the sequence of its characters.
StrIds == {"LANGUAGE", "MANUFACTURER", "PRODUCT", "SERIAL", "CONFIG", "MAC",
           "OTHER"}
DefaultString == <<68, 101, 102, 97, 117, 108, 116>>
MacString     == <<48, 50, 48, 48, 48, 48, 49, 49, 50, 50, 51, 51>>
ZeroString    == <<48>>

\* A configured string of n printable 7-bit characters.
Text(n) == [i \in 1..n |-> 32 + i]

LSBYTE(w) == w % U8
MSBYTE(w) == (w \div U8) % U8

Min(a, b) == IF a < b THEN a ELSE b

\* The ids for which the switch of cdcecm_mkstrdesc selects a string (the
\* others take the default branch, id 0 returns before), and the string.
HasString(id, bld) ==
  \/ id = "MAC"
  \/ bld.composite = "no"
       /\ id \in {"MANUFACTURER", "PRODUCT", "SERIAL", "CONFIG"}

SourceString(id, bld, cfgstr) ==
  IF id = "MAC" THEN MacString
  ELSE IF id = "CONFIG" THEN DefaultString
  ELSE IF id = "SERIAL" /\ ~bld.serialstr THEN ZeroString
  ELSE cfgstr

\* cdcecm_mkstrdesc without the clamp of len.
cdcecm_mkstrdesc_noclamp(id, bld, cfgstr) ==
  LET str == SourceString(id, bld, cfgstr)
  IN  IF id = "LANGUAGE" /\ bld.composite = "no"
        THEN [ret |-> 4, len |-> 4, type |-> USB_DESC_TYPE_STRING,
              data |-> <<LSBYTE(CDCECM_STR_LANGUAGE),
                         MSBYTE(CDCECM_STR_LANGUAGE)>>]
      ELSE IF ~HasString(id, bld)
        THEN [ret |-> -EINVAL, len |-> 0, type |-> 0, data |-> <<>>]
      ELSE LET len == Len(str)
               ndata == 2 * len
           IN  [ret |-> (ndata + 2) % U8, len |-> (ndata + 2) % U8,
                type |-> USB_DESC_TYPE_STRING,
                data |-> [k \in 1..ndata |->
                            IF k % 2 = 1 THEN str[(k + 1) \div 2] % U8
                                         ELSE 0]]

\* cdcecm_mkstrdesc: the value returned, strdesc->len (one byte),
\* strdesc->type and the bytes written behind the header.
cdcecm_mkstrdesc(id, bld, cfgstr) ==
  LET str == SourceString(id, bld, cfgstr)
  IN  IF id = "LANGUAGE" /\ bld.composite = "no"
        THEN [ret |-> 4, len |-> 4, type |-> USB_DESC_TYPE_STRING,
              data |-> <<LSBYTE(CDCECM_STR_LANGUAGE),
                         MSBYTE(CDCECM_STR_LANGUAGE)>>]
      ELSE IF ~HasString(id, bld)
        THEN [ret |-> -EINVAL, len |-> 0, type |-> 0, data |-> <<>>]
      ELSE LET len == Min(Len(str), CDCECM_MAXSTRLEN \div 2)
               ndata == 2 * len
           IN  [ret |-> (ndata + 2) % U8, len |-> (ndata + 2) % U8,
                type |-> USB_DESC_TYPE_STRING,
                data |-> [k \in 1..ndata |->
                            IF k % 2 = 1 THEN str[(k + 1) \div 2] % U8
                                         ELSE 0]]

(* ------------------------- control request dispatcher ------------------ *)

ReqTypes == {"STANDARD", "CLASS", "VENDOR"}
Requests == {"GETDESCRIPTOR", "SETCONFIGURATION", "SETINTERFACE",
             "SET_PACKET_FILTER", "OTHER"}

\* The string id of a descriptor index (cdcecm.h).
StrIdOf(index) ==
  IF index = 0 THEN "LANGUAGE"
  ELSE IF index \in 1..5
    THEN <<"MANUFACTURER", "PRODUCT", "SERIAL", "CONFIG", "MAC">>[index]
  ELSE "OTHER"

\* CONFIG_CDCECM_VENDORSTR, CONFIG_CDCECM_PRODUCTSTR and the board's serial
\* string in the build the dispatcher runs in.
ConfiguredString == Text(6)

\* cdcecm_getdescriptor: the length of the descriptor written to desc, or
\* -ENOTSUP.  usbdev_copy_devdesc gives the size of the device descriptor.
cdcecm_getdescriptor(s, type, index) ==
  IF type = USB_DESC_TYPE_DEVICE /\ build.composite = "no"
    THEN USB_SIZEOF_DEVDESC
  ELSE IF type = USB_DESC_TYPE_CONFIG
            \/ (type = USB_DESC_TYPE_OTHERSPEEDCONFIG /\ build.dualspeed)
    THEN cdcecm_mkcfgdesc(TRUE, s.speed, type, build).ret
  ELSE IF type = USB_DESC_TYPE_STRING
    THEN cdcecm_mkstrdesc(StrIdOf(index), build, ConfiguredString).ret
  ELSE -ENOTSUP

\* cdcecm_setinterface: netdev_carrier_on(&self->dev), returns OK
cdcecm_setinterface(s) == Call(s, <<"netdev_carrier_on">>)

\* A reply of the length the handler produced, whatever the host asked for.
ReplyLen_produced(wLength, produced) == produced

\* A reply of the length the host asked for, whatever the handler produced.
ReplyLen_asked(wLength, produced) == wLength

\* ctrlreq->len = MIN(len, ret): the length of the reply, for the wLength
\* of the setup packet and the length the handler produced.
ReplyLen(wLength, produced) == Min(wLength, produced)

\* The reply part of cdcecm_setup that leaves a refused control request
\* alone: cdcecm_ep0incomplete is not called.
Ep0Reply_abandon(r, ep0ok) ==
  IF r.ret >= 0
    THEN LET s1 == Call(r.st, <<"EP_SUBMIT", "ep0">>)
         IN  [st |-> s1, inner |-> r.ret, ret |-> IF ep0ok THEN OK ELSE -EIO]
    ELSE [st |-> r.st, inner |-> r.ret, ret |-> r.ret]

\* The reply part of cdcecm_setup: with ret >= 0 the control request is
\* submitted on ep0 and the result of EP_SUBMIT is what cdcecm_setup returns;
\* when that fails ctrlreq->result is set to OK and cdcecm_ep0incomplete is
\* called directly with the request.
Ep0Reply(r, ep0ok) ==
  IF r.ret >= 0
    THEN LET s1 == Call(r.st, <<"EP_SUBMIT", "ep0">>)
         IN  IF ep0ok THEN [st |-> s1, inner |-> r.ret, ret |-> OK]
             ELSE [st |-> Call(s1, <<"cdcecm_ep0incomplete", OK>>),
                   inner |-> r.ret, ret |-> -EIO]
    ELSE [st |-> r.st, inner |-> r.ret, ret |-> r.ret]

\* cdcecm_setup that accepts what it does not handle.
cdcecm_setup_lenient(s, devspeed, ctype, req, value, fail, ep0ok) ==
  LET unsupported == [st |-> s, ret |-> OK]
      r == IF ctype = "STANDARD" THEN
             CASE req = "GETDESCRIPTOR" ->
                    LET s1 == [s EXCEPT !.speed = devspeed]
                    IN  [st |-> s1,
                         ret |-> cdcecm_getdescriptor(s1, (value \div U8) % U8,
                                                      value % U8)]
               [] req = "SETCONFIGURATION" ->
                    cdcecm_setconfig(s, value % U8, fail)
               [] req = "SETINTERFACE" ->
                    [st |-> cdcecm_setinterface(s), ret |-> OK]
               [] OTHER -> unsupported
           ELSE IF ctype = "CLASS" THEN
             CASE req = "SET_PACKET_FILTER" -> [st |-> s, ret |-> OK]
               [] OTHER -> unsupported
           ELSE unsupported
  IN  Ep0Reply(r, ep0ok)

\* cdcecm_setup for a setup packet of type ctype, request req and 16-bit
\* wValue value, on a controller running at devspeed.  GET_DESCRIPTOR takes
\* the descriptor type from the high and the index from the low byte of
\* wValue; cdcecm_setconfig takes the value as uint8_t.
cdcecm_setup(s, devspeed, ctype, req, value, fail, ep0ok) ==
  LET unsupported == [st |-> s, ret |-> -EOPNOTSUPP]
      r == IF ctype = "STANDARD" THEN
             CASE req = "GETDESCRIPTOR" ->
                    LET s1 == [s EXCEPT !.speed = devspeed]
                    IN  [st |-> s1,
                         ret |-> cdcecm_getdescriptor(s1, (value \div U8) % U8,
                                                      value % U8)]
               [] req = "SETCONFIGURATION" ->
                    cdcecm_setconfig(s, value % U8, fail)
               [] req = "SETINTERFACE" ->
                    [st |-> cdcecm_setinterface(s), ret |-> OK]
               [] OTHER -> unsupported
           ELSE IF ctype = "CLASS" THEN
             CASE req = "SET_PACKET_FILTER" -> [st |-> s, ret |-> OK]
               [] OTHER -> unsupported
           ELSE unsupported
  IN  Ep0Reply(r, ep0ok)

workVars == <<pollwork, pcIrq, pcPoll, netlock>>
bufVars  == <<wrBuf, wrClobber, d_buf, d_len>>

\* The setup packets the host sends: SET_CONFIGURATION with each wValue of
\* ConfigValues.
SetupPackets ==
  {[ctype |-> "STANDARD", req |-> "SETCONFIGURATION", value |-> v] :
     v \in ConfigValues}

\* Whether the controller accepts the reply submitted on ep0.
Ep0Outcomes == {TRUE}

\* The controller's choice matters only where cdcecm_setconfig goes on to
\* configure the endpoints.
FailPointsOf(pkt) ==
  IF pkt.req = "SETCONFIGURATION" /\ pkt.value % U8 = CDCECM_CONFIGID
    THEN FailPoints ELSE {"none"}

\* The speeds the controller reports in dev->speed; only GET_DESCRIPTOR
\* reads it.
DevSpeeds == {USB_SPEED_FULL, USB_SPEED_HIGH, USB_SPEED_SUPER}
DevSpeedsOf(pkt) ==
  IF pkt.ctype = "STANDARD" /\ pkt.req = "GETDESCRIPTOR"
    THEN DevSpeeds ELSE {speed}

\* The controller delivers one of packets to the class driver and answers
\* the submission of the reply with one of outcomes.
Deliver(packets, outcomes) ==
  \E pkt \in packets, ep0ok \in outcomes :
    \E fail \in FailPointsOf(pkt), devspeed \in DevSpeedsOf(pkt) :
      LET r == cdcecm_setup(Self, devspeed, pkt.ctype, pkt.req, pkt.value,
                            fail, ep0ok)
      IN  /\ lastOp = NoOp
          /\ UNCHANGED <<aside, rxWork>>
          /\ Commit(r.st)
          /\ speed' = r.st.speed
          /\ lastOp' = Op(Request(pkt.ctype, pkt.req), pkt.value, config,
                          r.ret,
                          <<"EP_SUBMIT", "ep0">> \in Range(r.st.calls))
          /\ UNCHANGED <<workVars, bufVars>>

Setup == Deliver(SetupPackets, Ep0Outcomes)

\* cdcecm_disconnect
Disconnect ==
  /\ lastOp = NoOp
  /\ UNCHANGED otherVars
  /\ lastOp' = Op(Request("none", "disconnect"), 0, config, OK, FALSE)
  /\ UNCHANGED <<config, epen, rdOut, rdBuf, rxpending, wrOut, wrShutdown,
                 wrreq_idle, txdone, bifup, iffup, irqwork, workVars, bufVars>>

\* cdcecm_setup, cdcecm_disconnect, cdcecm_rdcomplete or cdcecm_txavail
\* returns.
HandlerReturn ==
  /\ lastOp # NoOp
  /\ UNCHANGED otherVars
  /\ lastOp' = NoOp
  /\ UNCHANGED <<config, epen, rdOut, rdBuf, rxpending, wrOut, wrShutdown,
                 wrreq_idle, txdone, bifup, iffup, irqwork, workVars, bufVars>>

(* ----------------------------- transfer completions -------------------- *)

\* What a read completion brings: a received frame with result OK, or an
\* error result (for -ESHUTDOWN nothing more; for any other error the
\* controller's answer to the EP_SUBMIT of the error branch).
RdCompletionsOf(frames) ==
  {[result |-> OK, frame |-> f, resubmit |-> TRUE] : f \in frames}
  \cup {[result |-> -ESHUTDOWN, frame |-> NoFrame, resubmit |-> TRUE]}
  \cup {[result |-> -EIO, frame |-> NoFrame, resubmit |-> b] : b \in BOOLEAN}

RdCompletions == RdCompletionsOf(RxFrames)

\* The controller completes the outstanding read with one of the given
\* completions.
Complete(completions) ==
  \E c \in completions :
    LET s == cdcecm_rdcomplete([Self EXCEPT !.rdOut = @ - 1],
                               c.result, c.frame, c.resubmit)
    IN  /\ rdOut > 0
        /\ lastOp = NoOp
        /\ Commit(s)
        /\ lastOp' = Op(Request("bulk-OUT", "complete"), c.result, config, OK,
                        <<"EP_SUBMIT", "epbulkout">> \in Range(s.calls))
            /\ UNCHANGED otherVars
        /\ UNCHANGED <<workVars, bufVars>>

RdComplete == Complete(RdCompletions)

\* The controller completes the outstanding write (with any result:
\* cdcecm_wrcomplete does not look at it).
WrComplete ==
  /\ wrOut > 0
  /\ Commit(cdcecm_wrcomplete([Self EXCEPT !.wrOut = @ - 1]))
  /\ NoHistory
  /\ UNCHANGED otherVars
  /\ UNCHANGED <<workVars, bufVars>>

(* --------------------- callbacks of the network stack ------------------ *)

\* The stack calls its callbacks with the network locked.
StackHoldsLock == netlock = "free"

\* A work structure that always reports itself available.
work_available_always(queued) == TRUE

\* work_available(&priv->pollwork): the work is not waiting on the queue.
work_available(queued) == ~queued

\* cdcecm_txavail: the poll work is queued when it is available; the value
\* is whether cdcecm_txavail_work is queued afterwards.
cdcecm_txavail(queued) ==
  IF work_available(queued) THEN TRUE ELSE queued

\* The stack tells the driver that it has data to send.
TxAvail ==
  /\ StackHoldsLock
  /\ lastOp = NoOp
  /\ pollwork' = cdcecm_txavail(pollwork)
  /\ lastOp' = Op(Request("netdev", "txavail"), 0, config, OK,
                  work_available(pollwork))
  /\ UNCHANGED otherVars
  /\ UNCHANGED <<config, epen, rdOut, rdBuf, rxpending, wrOut, wrShutdown,
                 wrreq_idle, txdone, bifup, iffup, irqwork, pcIrq, pcPoll,
                 netlock, bufVars>>

\* The stack brings the interface up or down through d_ifup / d_ifdown.
StackIfUpDown ==
  \E up \in BOOLEAN :
    /\ StackHoldsLock
    /\ bifup' = (IF up THEN cdcecm_ifup(Self) ELSE cdcecm_ifdown(Self)).bifup
    /\ NoHistory
    /\ UNCHANGED otherVars
    /\ UNCHANGED <<config, epen, rdOut, rdBuf, rxpending, wrOut, wrShutdown,
                   wrreq_idle, txdone, iffup, irqwork>>
    /\ UNCHANGED <<workVars, bufVars>>

(* ------------------------------- data path ----------------------------- *)

ctlVars == <<config, epen, iffup, bifup, wrShutdown>>

\* cdcecm_transmit that does not wait for wrreq_idle.
cdcecm_transmit_nowait(ok) ==
  /\ wrreq_idle' = IF wrreq_idle > 0 THEN wrreq_idle - 1 ELSE 0
  /\ wrBuf' = [type |-> d_buf, len |-> d_len]
  /\ wrClobber' = (wrClobber \/ wrOut > 0)
  /\ wrOut' = IF ok /\ epen["epbulkin"] THEN wrOut + 1 ELSE wrOut

\* cdcecm_transmit that submits wrreq without copying the frame into it.
cdcecm_transmit_stale(ok) ==
  /\ wrreq_idle > 0
  /\ wrreq_idle' = wrreq_idle - 1
  /\ wrBuf' = wrBuf
  /\ wrClobber' = wrClobber
  /\ wrOut' = IF ok /\ epen["epbulkin"] THEN wrOut + 1 ELSE wrOut

\* cdcecm_transmit: nxsem_wait(&self->wrreq_idle) blocks while the count is
\* zero; then the frame is copied into wrreq and EP_SUBMIT(epbulkin, wrreq)
\* is called, whose result (ok: the controller accepts it) is ignored.
cdcecm_transmit(ok) ==
  /\ wrreq_idle > 0
  /\ wrreq_idle' = wrreq_idle - 1
  /\ wrBuf' = [type |-> d_buf, len |-> d_len]
  /\ wrClobber' = (wrClobber \/ wrOut > 0)
  /\ wrOut' = IF ok /\ epen["epbulkin"] THEN wrOut + 1 ELSE wrOut

\* devif_poll(&self->dev, cdcecm_txpoll): the stack either has a frame to
\* send (it fills d_buf and d_len and calls cdcecm_txpoll, which transmits
\* and ends the poll) or has none.
devif_poll(hasData, type, len) ==
  /\ d_buf' = IF hasData THEN type ELSE d_buf
  /\ d_len' = IF hasData THEN len ELSE 0

(* ------------------ cdcecm_interrupt_work on a worker thread ----------- *)

\* A step of a work callback ends either at its next blocking point or with
\* net_unlock() and the return to the worker thread.  Interrupt handlers
\* neither read nor write the lock, so net_unlock() is taken together with
\* the last step before it, and net_lock() with the first read after it.

\* The worker thread takes irqwork off the queue (it is available again)
\* and calls cdcecm_interrupt_work.
IrqWorkStart ==
  /\ irqwork /\ pcIrq = "idle"
  /\ irqwork' = FALSE
  /\ pcIrq' = "lock"
  /\ NoHistory
  /\ UNCHANGED otherVars
  /\ UNCHANGED <<ctlVars, rdOut, rdBuf, rxpending, wrOut, wrreq_idle, txdone,
                 pollwork, pcPoll, netlock, bufVars>>

\* net_lock(); if (self->rxpending)
IrqWorkLock ==
  /\ pcIrq = "lock" /\ netlock = "free"
  /\ netlock' = "irq"
  /\ pcIrq' = IF rxpending THEN "receive" ELSE "chktx"
  /\ NoHistory
  /\ UNCHANGED otherVars
  /\ UNCHANGED <<ctlVars, rdOut, rdBuf, rxpending, wrOut, wrreq_idle, txdone,
                 irqwork, pollwork, pcPoll, bufVars>>

\* Ethernet types cdcecm_receive hands to a stack input.
Dispatched == {"IP", "IP6", "ARP"}

\* cdcecm_receive that calls cdcecm_transmit for every dispatched frame,
\* without looking at d_len.
cdcecm_receive_eager(frame, reply, net) ==
  [d_buf |-> frame.type,
   d_len |-> IF frame.type \in Dispatched THEN reply ELSE frame.len,
   transmit |-> frame.type \in Dispatched,
   input |-> "none", drops |-> 0]

\* cdcecm_reply, and the same check in the ARP branch: cdcecm_transmit is
\* called when the dispatch left d_len > 0.
cdcecm_reply(len) == len > 0

\* cdcecm_receive that checks for a reply after a dropped frame as well.
cdcecm_receive_sendsdropped(frame, reply, net) ==
  [d_buf |-> frame.type,
   d_len |-> IF frame.type \in net THEN reply ELSE frame.len,
   transmit |-> IF frame.type \in net THEN cdcecm_reply(reply)
                ELSE cdcecm_reply(frame.len),
   input |-> CASE frame.type \notin net -> "none"
               [] frame.type = "IP" -> "ipv4_input"
               [] frame.type = "IP6" -> "ipv6_input"
               [] OTHER -> "arp_input",
   drops |-> IF frame.type \in net THEN 0 ELSE 1]

\* cdcecm_receive: the frame is copied from rdreq into d_buf; an IPv4, IPv6
\* or ARP frame is handed to the stack, which leaves the length of its reply
\* (0: none) in d_len; any other frame is dropped.  transmit: whether
\* cdcecm_transmit is called.
\* input: the stack input called ("none": none is); drops: the increments
\* NETDEV_RXDROPPED makes.  net: the protocols compiled in (the #ifdef
\* around each branch).
cdcecm_receive(frame, reply, net) ==
  LET handed(input) ==
        [d_buf |-> frame.type, d_len |-> reply,
         transmit |-> cdcecm_reply(reply), input |-> input, drops |-> 0]
  IN  IF "IP" \in net /\ frame.type = "IP" THEN handed("ipv4_input")
      ELSE IF "IP6" \in net /\ frame.type = "IP6" THEN handed("ipv6_input")
      ELSE IF "ARP" \in net /\ frame.type = "ARP" THEN handed("arp_input")
      ELSE [d_buf |-> frame.type, d_len |-> frame.len, transmit |-> FALSE,
            input |-> "none", drops |-> 1]


\* cdcecm_receive up to the transmission of a reply: the frame is copied
\* from rdreq to d_buf, handed to the stack input of its type, and the stack
\* leaves a reply of length reply in d_buf (0: no reply).  A frame of another
\* type is dropped with d_len left as it is.
IrqWorkReceive ==
  \E reply \in 0..MaxFrameLen :
    /\ pcIrq = "receive"
    /\ d_buf' = cdcecm_receive(rdBuf, reply, build.net).d_buf
    /\ d_len' = cdcecm_receive(rdBuf, reply, build.net).d_len
    /\ pcIrq' = IF cdcecm_receive(rdBuf, reply, build.net).transmit
                  THEN "reply" ELSE "resubmit"
    /\ rxWork' = [type |-> rdBuf.type,
                  reply |-> IF rdBuf.type \in build.net THEN reply ELSE 0,
                  reads |-> 0, writes |-> 0]
    /\ NoHistory
    /\ UNCHANGED <<aside, speed>>
    /\ UNCHANGED <<ctlVars, rdOut, rdBuf, rxpending, wrOut, wrreq_idle,
                   txdone, irqwork, pollwork, pcPoll, netlock, wrBuf,
                   wrClobber>>

\* cdcecm_reply / the ARP branch: cdcecm_transmit(self)
IrqWorkReply ==
  \E ok \in BOOLEAN :
    /\ pcIrq = "reply"
    /\ cdcecm_transmit(ok)
    /\ pcIrq' = "resubmit"
    /\ rxWork' = [rxWork EXCEPT !.writes = @ + 1]
    /\ NoHistory
    /\ UNCHANGED <<aside, speed>>
    /\ UNCHANGED <<ctlVars, rdOut, rdBuf, rxpending, txdone, irqwork,
                   pollwork, pcPoll, netlock, d_buf, d_len>>

\* The critical section after cdcecm_receive: rxpending is cleared and the
\* read request submitted again.
IrqWorkResubmit ==
  \E ok \in BOOLEAN :
    /\ pcIrq = "resubmit"
    /\ rxpending' = FALSE
    /\ rdOut' = SubmitRead(Self, ok).rdOut
    /\ pcIrq' = "chktx"
    /\ rxWork' = [rxWork EXCEPT !.reads = @ + 1]
    /\ NoHistory
    /\ UNCHANGED <<aside, speed>>
    /\ UNCHANGED <<ctlVars, rdBuf, wrOut, wrreq_idle, txdone, irqwork,
                   pollwork, pcPoll, netlock, bufVars>>

\* if (self->txdone); when it is not set: net_unlock() and return.
IrqWorkCheckTx ==
  /\ pcIrq = "chktx"
  /\ pcIrq' = IF txdone THEN "clrtx" ELSE "idle"
  /\ netlock' = IF txdone THEN netlock ELSE "free"
  /\ rxWork' = NoRx
  /\ NoHistory
  /\ UNCHANGED <<aside, speed>>
  /\ UNCHANGED <<ctlVars, rdOut, rdBuf, rxpending, wrOut, wrreq_idle, txdone,
                 irqwork, pollwork, pcPoll, bufVars>>

\* The critical section that clears txdone.
IrqWorkClearTx ==
  /\ pcIrq = "clrtx"
  /\ txdone' = FALSE
  /\ pcIrq' = "txdone"
  /\ NoHistory
  /\ UNCHANGED otherVars
  /\ UNCHANGED <<ctlVars, rdOut, rdBuf, rxpending, wrOut, wrreq_idle,
                 irqwork, pollwork, pcPoll, netlock, bufVars>>

\* cdcecm_txdone: devif_poll(&priv->dev, cdcecm_txpoll); when the stack has
\* nothing to send: net_unlock() and return.
IrqWorkTxdone ==
  \E hasData \in BOOLEAN, type \in TxTypes, len \in 1..MaxFrameLen :
    /\ pcIrq = "txdone"
    /\ devif_poll(hasData, type, len)
    /\ pcIrq' = IF hasData THEN "txpoll" ELSE "idle"
    /\ netlock' = IF hasData THEN netlock ELSE "free"
    /\ NoHistory
    /\ UNCHANGED otherVars
    /\ UNCHANGED <<ctlVars, rdOut, rdBuf, rxpending, wrOut, wrreq_idle,
                   txdone, irqwork, pollwork, pcPoll, wrBuf, wrClobber>>

\* cdcecm_txpoll called back by devif_poll: cdcecm_transmit(priv); then
\* net_unlock() and return.
IrqWorkTxpoll ==
  \E ok \in BOOLEAN :
    /\ pcIrq = "txpoll"
    /\ cdcecm_transmit(ok)
    /\ pcIrq' = "idle"
    /\ netlock' = "free"
    /\ NoHistory
    /\ UNCHANGED otherVars
    /\ UNCHANGED <<ctlVars, rdOut, rdBuf, rxpending, txdone, irqwork,
                   pollwork, pcPoll, d_buf, d_len>>

(* ------------------ cdcecm_txavail_work on a worker thread ------------- *)

drvVars == <<ctlVars, rdOut, rdBuf, rxpending, txdone, irqwork, pcIrq>>

\* The worker thread takes pollwork off the queue and calls
\* cdcecm_txavail_work.
PollWorkStart ==
  /\ pollwork /\ pcPoll = "idle"
  /\ pollwork' = FALSE
  /\ pcPoll' = "lock"
  /\ NoHistory
  /\ UNCHANGED otherVars
  /\ UNCHANGED <<drvVars, wrOut, wrreq_idle, netlock, bufVars>>

\* cdcecm_txavail_work that polls the stack without looking at bifup.
PollWorkPoll_always ==
  \E hasData \in BOOLEAN, type \in TxTypes, len \in 1..MaxFrameLen :
    /\ pcPoll = "lock" /\ netlock = "free"
    /\ devif_poll(hasData, type, len)
    /\ pcPoll' = IF hasData THEN "txpoll" ELSE "idle"
    /\ netlock' = IF hasData THEN "poll" ELSE "free"
    /\ NoHistory
    /\ UNCHANGED otherVars
    /\ UNCHANGED <<drvVars, wrOut, wrreq_idle, pollwork, wrBuf, wrClobber>>

\* net_lock(); if (self->bifup) devif_poll(&self->dev, cdcecm_txpoll); when
\* the interface is down or the stack has nothing to send: net_unlock().
PollWorkPoll ==
  \E hasData \in BOOLEAN, type \in TxTypes, len \in 1..MaxFrameLen :
    /\ pcPoll = "lock" /\ netlock = "free"
    /\ IF bifup
         THEN /\ devif_poll(hasData, type, len)
              /\ pcPoll' = IF hasData THEN "txpoll" ELSE "idle"
              /\ netlock' = IF hasData THEN "poll" ELSE "free"
         ELSE /\ UNCHANGED <<d_buf, d_len, netlock>>
              /\ pcPoll' = "idle"
    /\ NoHistory
    /\ UNCHANGED otherVars
    /\ UNCHANGED <<drvVars, wrOut, wrreq_idle, pollwork, wrBuf, wrClobber>>

\* cdcecm_txpoll called back by devif_poll: cdcecm_transmit(priv); then
\* net_unlock() and return.
PollWorkTxpoll ==
  \E ok \in BOOLEAN :
    /\ pcPoll = "txpoll"
    /\ cdcecm_transmit(ok)
    /\ pcPoll' = "idle"
    /\ netlock' = "free"
    /\ NoHistory
    /\ UNCHANGED otherVars
    /\ UNCHANGED <<drvVars, pollwork, d_buf, d_len>>

(* ------------------------------ specification -------------------------- *)

Next ==
  \/ Setup
  \/ Disconnect
  \/ HandlerReturn
  \/ RdComplete
  \/ WrComplete
  \/ TxAvail
  \/ StackIfUpDown
  \/ IrqWorkStart
  \/ IrqWorkLock
  \/ IrqWorkReceive
  \/ IrqWorkReply
  \/ IrqWorkResubmit
  \/ IrqWorkCheckTx
  \/ IrqWorkClearTx
  \/ IrqWorkTxdone
  \/ IrqWorkTxpoll
  \/ PollWorkStart
  \/ PollWorkPoll
  \/ PollWorkTxpoll

Spec == Init /\ [][Next]_vars

(* ------------------------------ bind and unbind ------------------------ *)

\* Binds one behaviour of the bind specification goes through.
MaxBinds == 2

ENOMEM == 12
ENODEV == 19

\* The handles with their allocation history, as one record.
Handles == [handle |-> handle, allocs |-> allocs, frees |-> frees]

\* usbdev_allocreq, DEV_ALLOCEP: the handle is what the controller returns,
\* NULL when it refuses.
Alloc(h, r, ok) ==
  [h EXCEPT !.handle[r] = ok, !.allocs[r] = IF ok THEN @ + 1 ELSE @]

\* FreeHandle that leaves the handle as it is.
FreeHandle_keep(h, r) ==
  IF h.handle[r] THEN [h EXCEPT !.frees[r] = @ + 1] ELSE h

\* if (self->x != NULL) { free x; self->x = NULL; }
FreeHandle(h, r) ==
  IF h.handle[r]
    THEN [h EXCEPT !.frees[r] = @ + 1, !.handle[r] = FALSE]
    ELSE h

\* The order in which cdcecm_unbind gives the resources back.
UnbindOrder == <<"epint", "ctrlreq", "rdreq", "epbulkout", "wrreq", "epbulkin">>

RECURSIVE FreeFrom(_, _)
FreeFrom(h, i) ==
  IF i > Len(UnbindOrder) THEN h
  ELSE FreeFrom(FreeHandle(h, UnbindOrder[i]), i + 1)

\* cdcecm_unbind: cdcecm_resetconfig, then every handle that is set is freed
\* and cleared, then d_len = 0.
cdcecm_unbind(s, h) ==
  [st |-> cdcecm_resetconfig(s), h |-> FreeFrom(h, 1), d_len |-> 0]

\* cdcecm_bind: returns the state, the handles, d_len and the result.
cdcecm_bind(s, h, out) ==
  LET h1 == Alloc(h, "ctrlreq", out["ctrlreq"])
      h2 == Alloc(Alloc(Alloc(h1, "epint", out["epint"]),
                        "epbulkin", out["epbulkin"]),
                  "epbulkout", out["epbulkout"])
      h3 == Alloc(h2, "rdreq", out["rdreq"])
      h4 == Alloc(h3, "wrreq", out["wrreq"])
      error(hx, ret) ==
        LET u == cdcecm_unbind(s, hx)
        IN  [st |-> u.st, h |-> u.h, d_len |-> u.d_len, ret |-> ret]
  IN  IF ~h1.handle["ctrlreq"] THEN error(h1, -ENOMEM)
      ELSE IF ~h2.handle["epint"] \/ ~h2.handle["epbulkin"]
                \/ ~h2.handle["epbulkout"] THEN error(h2, -ENODEV)
      ELSE IF ~h3.handle["rdreq"] THEN error(h3, -ENOMEM)
      ELSE IF ~h4.handle["wrreq"] THEN error(h4, -ENOMEM)
      ELSE IF ~out["wrreq_idle"] THEN error(h4, -EINVAL)
      ELSE [st |-> [s EXCEPT !.wrreq_idle = 1, !.txdone = FALSE],
            h |-> h4, d_len |-> 0, ret |-> OK]

\* The driver after cdcecm_classobject, before the controller binds it.
InitBind ==
  /\ build = StandAlone
  /\ Constructed
  /\ wrreq_idle = 0
  /\ handle = [r \in Resources |-> FALSE]
  /\ allocs = [r \in Resources |-> 0]
  /\ frees = [r \in Resources |-> 0]
  /\ lastBind = BindOp("none", AllGranted, OK)
  /\ BuilderIdle
  /\ SyslogBooted

Bound == lastBind.op = "bind" /\ lastBind.ret = OK

unboundVars == <<wrBuf, wrClobber, d_buf, workVars, lastOp, descVars, build,
                 speed, rxWork, syslogVars>>

\* The controller binds the driver (usbdev_register).
Bind ==
  \E out \in BindOutcomes :
    LET b == cdcecm_bind(Self, Handles, out)
    IN  /\ ~Bound
        /\ allocs["ctrlreq"] < MaxBinds
        /\ Commit(b.st)
        /\ handle' = b.h.handle
        /\ allocs' = b.h.allocs
        /\ frees' = b.h.frees
        /\ d_len' = b.d_len
        /\ lastBind' = BindOp("bind", out, b.ret)
        /\ UNCHANGED unboundVars

\* The controller unbinds the driver (usbdev_unregister), or calls unbind
\* once more; no interrupt handler of the driver is running.
Unbind ==
  LET u == cdcecm_unbind(Self, Handles)
  IN  /\ lastOp = NoOp
      /\ Commit(u.st)
      /\ handle' = u.h.handle
      /\ allocs' = u.h.allocs
      /\ frees' = u.h.frees
      /\ d_len' = u.d_len
      /\ lastBind' = BindOp("unbind", AllGranted, OK)
      /\ UNCHANGED unboundVars

NextBind == Bind \/ Unbind

SpecBind == InitBind /\ [][NextBind]_vars

(* ------------------------- descriptor builder calls -------------------- *)

\* Calls of the size-then-fill functions.
CfgRequests ==
  [fn : {"mkcfgdesc"}, build : Builds, speed : Speeds,
   type : {USB_DESC_TYPE_CONFIG, USB_DESC_TYPE_OTHERSPEEDCONFIG}]
EpRequests ==
  [fn : {"mkepdesc"}, build : Builds, speed : Speeds, epidx : Endpoints]

\* Both passes of cdcecm_mkcfgdesc, as the composite layer and
\* cdcecm_getdescriptor make them.
MkCfgDesc ==
  /\ dreq.fn = "mkcfgdesc" /\ dres = NoDescriptor
  /\ dres' = [fn |-> "mkcfgdesc",
              size |-> cdcecm_mkcfgdesc(FALSE, dreq.speed, dreq.type,
                                        dreq.build).ret,
              fill |-> cdcecm_mkcfgdesc(TRUE, dreq.speed, dreq.type,
                                        dreq.build)]
  /\ UNCHANGED <<dreq, bindVars, build, speed, rxWork, syslogVars>>
  /\ UNCHANGED <<config, epen, rdOut, rdBuf, rxpending, wrOut, wrShutdown,
                 wrreq_idle, txdone, bifup, iffup, irqwork, workVars,
                 bufVars, lastOp>>

\* Both passes of cdcecm_mkepdesc.
MkEpDesc ==
  /\ dreq.fn = "mkepdesc" /\ dres = NoDescriptor
  /\ dres' = [fn |-> "mkepdesc",
              size |-> cdcecm_mkepdesc(dreq.epidx, FALSE, dreq.speed,
                                       dreq.build).ret,
              fill |-> cdcecm_mkepdesc(dreq.epidx, TRUE, dreq.speed,
                                       dreq.build)]
  /\ UNCHANGED <<dreq, bindVars, build, speed, rxWork, syslogVars>>
  /\ UNCHANGED <<config, epen, rdOut, rdBuf, rxpending, wrOut, wrShutdown,
                 wrreq_idle, txdone, bifup, iffup, irqwork, workVars,
                 bufVars, lastOp>>

\* Calls of cdcecm_mkstrdesc; the speed options of the build play no part.
StrRequests ==
  [fn : {"mkstrdesc"},
   build : {b \in Builds : ~b.superspeed /\ ~b.dualspeed},
   id : StrIds, cfgstr : {Text(n) : n \in 0..MaxStrLen}]

MkStrDesc ==
  /\ dreq.fn = "mkstrdesc" /\ dres = NoDescriptor
  /\ dres' = [fn |-> "mkstrdesc",
              desc |-> cdcecm_mkstrdesc(dreq.id, dreq.build, dreq.cfgstr)]
  /\ UNCHANGED <<dreq, bindVars, build, speed, rxWork, syslogVars>>
  /\ UNCHANGED <<config, epen, rdOut, rdBuf, rxpending, wrOut, wrShutdown,
                 wrreq_idle, txdone, bifup, iffup, irqwork, workVars,
                 bufVars, lastOp>>

\* The builder is called once, with any arguments.
InitDesc ==
  /\ build = StandAlone
  /\ InitBound
  /\ dreq \in CfgRequests \cup EpRequests \cup StrRequests
  /\ dres = NoDescriptor
  /\ SyslogBooted

NextDesc == MkCfgDesc \/ MkEpDesc \/ MkStrDesc

SpecDesc == InitDesc /\ [][NextDesc]_vars

(* ------------------------- control requests alone ---------------------- *)

\* GET_DESCRIPTOR wValues: a descriptor type in the high byte, an index in
\* the low byte.
DescValues ==
  {ty * U8 + ix : ty \in {USB_DESC_TYPE_DEVICE, USB_DESC_TYPE_CONFIG,
                          USB_DESC_TYPE_STRING, USB_DESC_TYPE_INTERFACE,
                          USB_DESC_TYPE_OTHERSPEEDCONFIG},
                  ix \in {0, 5, 6}}

\* Packet filter bitmaps of SET_ETHERNET_PACKET_FILTER (wValue): none, each
\* of the five filter bits, all five, and all 16 bits.
FilterBitmaps == {0, 1, 2, 4, 8, 16, 31, U16 - 1}

\* wLength of a setup packet.
WLengths == {0, 1, 64, U16 - 1}

\* Every kind of setup packet: the requests cdcecm_setup handles, and
\* request codes and request types it does not.
ControlPackets ==
  SetupPackets
    \cup [ctype : {"STANDARD"}, req : {"GETDESCRIPTOR"}, value : DescValues]
    \cup [ctype : {"CLASS"}, req : {"SET_PACKET_FILTER"},
          value : FilterBitmaps]
    \cup [ctype : ReqTypes, req : Requests, value : {0}]

\* The builds in which cdcecm_setup submits the reply itself.
CtrlBuilds == {b \in Builds : b.composite = "no" /\ ~b.serialstr}

InitCtrl ==
  build \in CtrlBuilds /\ InitBound /\ BuilderIdle /\ SyslogBooted

Control == Deliver(ControlPackets, BOOLEAN)

NextCtrl == Control \/ HandlerReturn

SpecCtrl == InitCtrl /\ [][NextCtrl]_vars

(* ---------------------------- the data path alone ---------------------- *)

\* The instance after cdcecm_classobject and a cdcecm_bind in which every
\* allocation was granted, as cdcecm_setconfig receives it.
Unconfigured ==
  [config |-> CDCECM_CONFIGID_NONE, epen |-> [e \in Endpoints |-> FALSE],
   rdOut |-> 0, rdBuf |-> NoFrame, rxpending |-> FALSE, wrOut |-> 0,
   wrShutdown |-> FALSE, wrreq_idle |-> 1, txdone |-> FALSE,
   bifup |-> FALSE, iffup |-> FALSE, irqwork |-> FALSE,
   speed |-> USB_SPEED_HIGH, calls |-> <<>>]

\* The network stacks the driver is built for: IPv4 with ARP, IPv6, or both.
NetConfigs == {{"IP", "ARP"}, {"IP6"}, DualStack}
RxBuilds == {[StandAlone EXCEPT !.net = n] : n \in NetConfigs}

\* The driver after a SET_CONFIGURATION(1) in which nothing failed: the
\* endpoints are enabled, the read is posted and the interface is up.
InitRx ==
  /\ build \in RxBuilds
  /\ BuilderIdle
  /\ SyslogBooted
  /\ handle = [r \in Resources |-> TRUE]
  /\ allocs = [r \in Resources |-> 1]
  /\ frees = [r \in Resources |-> 0]
  /\ lastBind = BindOp("bind", AllGranted, OK)
  /\ LET s == cdcecm_setconfig(Unconfigured, CDCECM_CONFIGID, "none").st
     IN  /\ config = s.config
         /\ epen = s.epen
         /\ rdOut = s.rdOut
         /\ rdBuf = s.rdBuf
         /\ rxpending = s.rxpending
         /\ wrOut = s.wrOut
         /\ wrShutdown = s.wrShutdown
         /\ wrreq_idle = s.wrreq_idle
         /\ txdone = s.txdone
         /\ bifup = s.bifup
         /\ iffup = s.iffup
         /\ irqwork = s.irqwork
         /\ speed = s.speed
  /\ wrBuf = NoFrame
  /\ wrClobber = FALSE
  /\ d_buf = "NONE"
  /\ d_len = 0
  /\ pollwork = FALSE
  /\ pcIrq = "idle"
  /\ pcPoll = "idle"
  /\ netlock = "free"
  /\ lastOp = NoOp
  /\ rxWork = NoRx

\* The host sends frames of every Ethernet type.
RdCompleteAny == Complete(RdCompletionsOf(Frames))

NextRx ==
  \/ RdCompleteAny
  \/ HandlerReturn
  \/ WrComplete
  \/ TxAvail
  \/ IrqWorkStart
  \/ IrqWorkLock
  \/ IrqWorkReceive
  \/ IrqWorkReply
  \/ IrqWorkResubmit
  \/ IrqWorkCheckTx
  \/ IrqWorkClearTx
  \/ IrqWorkTxdone
  \/ IrqWorkTxpoll
  \/ PollWorkStart
  \/ PollWorkPoll
  \/ PollWorkTxpoll

SpecRx == InitRx /\ [][NextRx]_vars

(* ----------------------- unbind of a running driver -------------------- *)

\* The controller unbinds the driver while it is configured and its data
\* path is running: cdcecm_unbind comes with work queued or on a worker
\* thread, and the network device stays registered with the stack.
InitUnbind == InitRx /\ build = StandAlone

NextUnbind ==
  \/ Unbind
  \/ RdComplete
  \/ HandlerReturn
  \/ WrComplete
  \/ TxAvail
  \/ IrqWorkStart
  \/ IrqWorkLock
  \/ IrqWorkReceive
  \/ IrqWorkReply
  \/ IrqWorkResubmit
  \/ IrqWorkCheckTx
  \/ IrqWorkClearTx
  \/ IrqWorkTxdone
  \/ IrqWorkTxpoll
  \/ PollWorkStart
  \/ PollWorkPoll
  \/ PollWorkTxpoll

SpecUnbind == InitUnbind /\ [][NextUnbind]_vars

(* ---------------------------- the SYSLOG channel table ----------------- *)

\* The largest CONFIG_SYSLOG_MAX_CHANNELS.
MaxChannels == 3

\* The channels callers pass: the default channel and enough others to find
\* the largest table full without one of them.  Each has sc_putc and
\* sc_force.
Channels == 1..(MaxChannels + 1)

\* syslog_channel_remove that clears the slot and moves nothing.
ShiftBack_none(table, i) == [table EXCEPT ![i] = NULL]

RECURSIVE ShiftBack(_, _)
\* The while loop of syslog_channel_remove from slot i (counted from 1): the
\* channels behind it move one slot back, up to the first NULL or the end
\* of the table, and the last slot they leave is cleared.
ShiftBack(table, i) ==
  IF i < Len(table) /\ table[i + 1] # NULL
    THEN ShiftBack([table EXCEPT ![i] = table[i + 1]], i + 1)
    ELSE [table EXCEPT ![i] = NULL]

RECURSIVE RegisterFrom_evict(_, _, _)
\* A for loop of syslog_channel that gives the last slot of a full table to
\* the new channel.
RegisterFrom_evict(table, channel, i) ==
  IF i > Len(table)
    THEN [table |-> [table EXCEPT ![Len(table)] = channel], ret |-> OK]
  ELSE IF table[i] = NULL
    THEN [table |-> [table EXCEPT ![i] = channel], ret |-> OK]
  ELSE IF table[i] = channel THEN [table |-> table, ret |-> OK]
  ELSE RegisterFrom_evict(table, channel, i + 1)

RECURSIVE RegisterFrom_again(_, _, _)
\* A for loop of syslog_channel that does not look for the channel in the
\* slots in use.
RegisterFrom_again(table, channel, i) ==
  IF i > Len(table) THEN [table |-> table, ret |-> -EINVAL]
  ELSE IF table[i] = NULL
    THEN [table |-> [table EXCEPT ![i] = channel], ret |-> OK]
  ELSE RegisterFrom_again(table, channel, i + 1)

RECURSIVE RegisterFrom(_, _, _)
\* The for loop of syslog_channel from slot i.
RegisterFrom(table, channel, i) ==
  IF i > Len(table) THEN [table |-> table, ret |-> -EINVAL]
  ELSE IF table[i] = NULL
    THEN [table |-> [table EXCEPT ![i] = channel], ret |-> OK]
  ELSE IF table[i] = channel THEN [table |-> table, ret |-> OK]
  ELSE RegisterFrom(table, channel, i + 1)

\* syslog_channel after its DEBUGASSERTs; a table of one slot
\* (CONFIG_SYSLOG_MAX_CHANNELS == 1) always takes the channel.
syslog_channel(table, channel) ==
  IF channel # NULL
    THEN IF Len(table) = 1
           THEN [table |-> [table EXCEPT ![1] = channel], ret |-> OK]
           ELSE RegisterFrom(table, channel, 1)
    ELSE [table |-> table, ret |-> -EINVAL]

RECURSIVE RemoveFrom(_, _, _)
\* The for loop of syslog_channel_remove from slot i.
RemoveFrom(table, channel, i) ==
  IF i > Len(table) THEN [table |-> table, ret |-> -EINVAL]
  ELSE IF table[i] = channel
    THEN [table |-> ShiftBack(table, i), ret |-> OK]
  ELSE RemoveFrom(table, channel, i + 1)

\* syslog_channel_remove after its DEBUGASSERT.
syslog_channel_remove(table, channel) ==
  IF channel # NULL
    THEN RemoveFrom(table, channel, 1)
    ELSE [table |-> table, ret |-> -EINVAL]

\* DEBUGASSERT(channel != NULL) stops the system in a build with debug
\* assertions.
AssertFails(channel) == debugAssertions /\ channel = NULL

\* The stopped system makes no further call.
Running == ~lastChannelOp.asserted

driverVars == <<config, epen, rdOut, rdBuf, rxpending, wrOut, wrShutdown,
                wrreq_idle, txdone, bifup, iffup, irqwork, workVars, bufVars,
                lastOp, speed, rxWork>>

\* A caller registers a channel, or passes NULL.
SyslogChannel ==
  \E channel \in Channels \cup {NULL} :
    LET r == syslog_channel(g_syslog_channel, channel)
    IN  /\ Running
        /\ g_syslog_channel' =
             IF AssertFails(channel) THEN g_syslog_channel ELSE r.table
        /\ lastChannelOp' =
             ChannelOp("syslog_channel", channel, g_syslog_channel,
                       r.ret, AssertFails(channel))
        /\ UNCHANGED <<debugAssertions, bindVars, descVars, build, driverVars>>

\* A caller removes a channel, or passes NULL.
SyslogChannelRemove ==
  \E channel \in Channels \cup {NULL} :
    LET r == syslog_channel_remove(g_syslog_channel, channel)
    IN  /\ Running
        /\ g_syslog_channel' =
             IF AssertFails(channel) THEN g_syslog_channel ELSE r.table
        /\ lastChannelOp' =
             ChannelOp("syslog_channel_remove", channel, g_syslog_channel,
                       r.ret, AssertFails(channel))
        /\ UNCHANGED <<debugAssertions, bindVars, descVars, build, driverVars>>

\* Every size of the table, with and without debug assertions.
InitSyslog ==
  /\ build = StandAlone
  /\ InitBound
  /\ BuilderIdle
  /\ g_syslog_channel \in {BootTable(n) : n \in 1..MaxChannels}
  /\ debugAssertions \in BOOLEAN
  /\ lastChannelOp = NoChannelOp

NextSyslog == SyslogChannel \/ SyslogChannelRemove

SpecSyslog == InitSyslog /\ [][NextSyslog]_vars

(* --------------------------------- memmem ------------------------------ *)

\* Bounds of the memory areas memmem is called with.
MaxHaystack == 7
MaxNeedle == 6

\* sizeof(long) of the 32-bit targets.
LONG_INT_N_BYTES == 4

\* The byte values in the memory areas.
Bytes == {0, 255}

\* The memory areas of at most n bytes.
ByteSeqs(n) == UNION {[1..k -> Bytes] : k \in 0..n}

RECURSIVE Sum(_)
\* The sum of the bytes of s, as sums_diff adds them up.
Sum(s) == IF s = <<>> THEN 0 ELSE Head(s) + Sum(Tail(s))

\* An unsigned long after "<<= 8" and "^= byte": it holds its last
\* LONG_INT_N_BYTES bytes, the oldest one is shifted out.
ShiftIn(chars, byte) == Append(Tail(chars), byte)

RECURSIVE LastChars(_, _)
\* last_needle_chars / last_haystack_chars, 0 at first, after the bytes of
\* s were shifted in one by one.
LastChars(chars, s) ==
  IF s = <<>> THEN chars ELSE LastChars(ShiftIn(chars, Head(s)), Tail(s))

\* An unsigned long of value 0.
ZeroChars == [k \in 1..LONG_INT_N_BYTES |-> 0]

\* memchr(area + from - 1, c, len): the position (counted from 1) of the
\* first byte c among the len bytes from position from on, NULL when there
\* is none.
memchr(area, from, c, len) ==
  LET hits == {k \in from..(from + len - 1) : area[k] = c}
  IN  IF hits = {} THEN NULL ELSE CHOOSE k \in hits : \A m \in hits : k <= m

\* memcmp(haystack, needle, len) == 0, haystack being position at of area.
memcmp(area, at, needle, len) ==
  \A k \in 1..len : area[at + k - 1] = needle[k]

\* memmem that trusts equal sums and equal last characters without
\* calling memcmp.
Matches_nocmp(area, at, needle, compare_len) == TRUE

\* The memcmp call of the two branches that compare sums.
Matches(area, at, needle, compare_len) ==
  memcmp(area, at, needle, compare_len)

RECURSIVE SlideSums(_, _, _, _, _, _, _, _, _)
\* The loop "for (i = haystacklen - needlelen; i > 0; --i)" of the branches
\* that compare sums.  haystack and haystack_ptr are positions in area;
\* wide: the branch for needlelen > LONG_INT_N_BYTES + 1, which also keeps
\* last_haystack_chars.
SlideSums(area, needle, haystack, haystack_ptr, sums_diff, last_haystack_chars, compare_len, wide, i) ==
  IF i = 0 THEN NULL
  ELSE LET chars == IF wide
                      THEN ShiftIn(last_haystack_chars, area[haystack_ptr])
                      ELSE last_haystack_chars
           diff == sums_diff - area[haystack] + area[haystack_ptr]
       IN  IF /\ diff = 0
              /\ chars = LastChars(ZeroChars, needle) \/ ~wide
              /\ Matches(area, haystack + 1, needle, compare_len)
             THEN haystack + 1
             ELSE SlideSums(area, needle, haystack + 1, haystack_ptr + 1,
                            diff, chars, compare_len, wide, i - 1)

RECURSIVE SlideChars(_, _, _, _, _, _, _)
\* The loop "for (i = haystacklen - needlelen; i > 0; --i)" of the branches
\* that compare last_haystack_chars with last_needle_chars; extra: the
\* branch for needlelen == LONG_INT_N_BYTES + 1, which also compares the
\* byte at haystack_ptr with the last byte of the needle.
SlideChars(area, needle, haystack_ptr, last_haystack_chars, last_needle_chars, extra, i) ==
  IF i = 0 THEN NULL
  ELSE LET chars == ShiftIn(last_haystack_chars, area[haystack_ptr])
           ptr == haystack_ptr + 1
       IN  IF /\ chars = last_needle_chars
              /\ extra => area[ptr] = needle[Len(needle)]
             THEN IF extra THEN ptr - (Len(needle) - 1)
                  ELSE ptr - Len(needle)
             ELSE SlideChars(area, needle, ptr, chars, last_needle_chars,
                             extra, i - 1)

\* memmem(haystack, haystacklen, needle, needlelen): the position in the
\* haystack (counted from 1) of the pointer returned, or NULL.
memmem(area, needle) ==
  LET needlelen == Len(needle)
      first == memchr(area, 1, needle[1], Len(area))
      haystacklen == Len(area) - (first - 1)
      window(n) == SubSeq(area, first, first + n - 1)
      long == LONG_INT_N_BYTES
  IN  IF needlelen = 0 THEN 1
      ELSE IF needlelen = 1 THEN memchr(area, 1, needle[1], Len(area))
      ELSE IF first = NULL THEN NULL
      ELSE IF haystacklen < needlelen THEN NULL
      ELSE IF needlelen > long + 1 THEN
        LET sums_diff == Sum(window(needlelen)) - Sum(needle)
            last_haystack_chars == LastChars(ZeroChars, window(needlelen))
            compare_len == needlelen - (long + 1)
        IN  IF /\ sums_diff = 0
               /\ last_haystack_chars = LastChars(ZeroChars, needle)
               /\ Matches(area, first, needle, compare_len)
              THEN first
              ELSE SlideSums(area, needle, first, first + needlelen,
                             sums_diff, last_haystack_chars, compare_len,
                             TRUE, haystacklen - needlelen)
      ELSE IF needlelen < long THEN
        LET sums_diff == Sum(window(needlelen)) - Sum(needle)
            compare_len == needlelen - 1
        IN  IF sums_diff = 0 /\ Matches(area, first, needle, compare_len)
              THEN first
              ELSE SlideSums(area, needle, first, first + needlelen,
                             sums_diff, ZeroChars, compare_len, FALSE,
                             haystacklen - needlelen)
      ELSE IF needlelen = long THEN
        LET last_needle_chars == LastChars(ZeroChars, needle)
            last_haystack_chars == LastChars(ZeroChars, window(needlelen))
        IN  IF last_haystack_chars = last_needle_chars THEN first
            ELSE SlideChars(area, needle, first + needlelen,
                            last_haystack_chars, last_needle_chars, FALSE,
                            haystacklen - needlelen)
      ELSE
        LET last_needle_chars == LastChars(ZeroChars, SubSeq(needle, 1, long))
            last_haystack_chars == LastChars(ZeroChars, window(long))
            last_needle_char == needle[long + 1]
        IN  IF /\ last_haystack_chars = last_needle_chars
               /\ area[first + long] = last_needle_char
              THEN first
              ELSE SlideChars(area, needle, first + long,
                              last_haystack_chars, last_needle_chars, TRUE,
                              haystacklen - needlelen)

\* Calls of memmem with every haystack and needle within the bounds.
MemRequests ==
  [fn : {"memmem"}, haystack : ByteSeqs(MaxHaystack),
   needle : ByteSeqs(MaxNeedle)]

MemMem ==
  /\ dreq.fn = "memmem" /\ dres = NoDescriptor
  /\ dres' = [fn |-> "memmem", ret |-> memmem(dreq.haystack, dreq.needle)]
  /\ UNCHANGED <<dreq, bindVars, build, syslogVars, driverVars>>

InitMem ==
  /\ build = StandAlone
  /\ InitBound
  /\ SyslogBooted
  /\ dreq \in MemRequests
  /\ dres = NoDescriptor

NextMem == MemMem

SpecMem == InitMem /\ [][NextMem]_vars

(* -------------------------------- properties --------------------------- *)

AllEnabled(en)  == \A e \in Endpoints : en[e]
AllDisabled(en) == \A e \in Endpoints : ~en[e]

\* A worker thread is inside cdcecm_transmit, at nxsem_wait(&wrreq_idle).
TransmitterAtGate == pcIrq \in {"reply", "txpoll"} \/ pcPoll = "txpoll"

\* What cdcecm_setup does with SET_CONFIGURATION(value) in the current state.
SetConfiguration(value, fail) ==
  cdcecm_setup(Self, speed, "STANDARD", "SETCONFIGURATION", value, fail, TRUE)

\* The last step was cdcecm_setup handling SET_CONFIGURATION.
WasSetConfiguration == lastOp.op = Request("STANDARD", "SETCONFIGURATION")

\* C1: at most one bulk-IN write is outstanding at any time; while it is
\* outstanding the write gate is taken (count 0), so that a second
\* cdcecm_transmit waits for the completion handler; and wrreq's buffer is
\* never written while wrreq is outstanding.
C1_SingleWriteOutstanding ==
  /\ wrOut <= 1
  /\ wrOut = 1 => wrreq_idle = 0
  /\ ~wrClobber

\* C1, witness: a write is outstanding and a second cdcecm_transmit is
\* waiting at the gate.
C1_SecondTransmitWaits ==
  /\ wrOut = 1
  /\ wrreq_idle = 0
  /\ TransmitterAtGate

\* C2: at most one bulk-OUT read is outstanding at any time.
C2_SingleReadOutstanding == rdOut <= 1

\* C3: while rxpending is set no read is submitted (none is outstanding),
\* and neither DEBUGASSERT(!self->rxpending) fails: not the one in
\* cdcecm_rdcomplete, whatever read completes, and not the one in
\* cdcecm_setconfig, whatever SET_CONFIGURATION arrives.
C3_RxPendingAssertions ==
  /\ rxpending => rdOut = 0
  /\ \A c \in RdCompletions :
       rdOut > 0 =>
         <<"ASSERT_FAIL", "rxpending">> \notin
           Range(cdcecm_rdcomplete(Self, c.result, c.frame, c.resubmit).calls)
  /\ \A pkt \in SetupPackets : \A fail \in FailPointsOf(pkt) :
       <<"ASSERT_FAIL", "rxpending">> \notin
         Range(SetConfiguration(pkt.value, fail).st.calls)

\* C4: after the endpoints were disabled with a write outstanding, no
\* transmitter is left waiting at the gate with nothing that could release
\* it (the gate is taken and no write is outstanding whose completion would
\* post it).
C4_NoTransmitterStuckAfterTeardown ==
  ~(wrShutdown /\ TransmitterAtGate /\ wrreq_idle = 0 /\ wrOut = 0)

\* C5: after SET_CONFIGURATION with value 0 was handled, in whatever state
\* it arrived, config is NONE, the three endpoints are disabled and the link
\* is down.
C5_ResetReachesNone ==
  (WasSetConfiguration /\ lastOp.arg = 0) =>
    /\ config = CDCECM_CONFIGID_NONE
    /\ AllDisabled(epen)
    /\ ~bifup

\* C6: after SET_CONFIGURATION with the supported id failed, config is NONE,
\* the three endpoints are disabled, no read is posted and the link is down.
C6_FailedConfigurationUnwinds ==
  (WasSetConfiguration /\ lastOp.arg = CDCECM_CONFIGID /\ lastOp.ret < 0) =>
    /\ config = CDCECM_CONFIGID_NONE
    /\ AllDisabled(epen)
    /\ rdOut = 0
    /\ ~bifup

\* C7: a SET_CONFIGURATION rejected with -EINVAL leaves the configuration as
\* it was (an ACTIVE driver stays ACTIVE with its endpoints enabled), and
\* handling it calls neither d_ifdown nor EP_DISABLE.
C7_RejectedRequestChangesNothing ==
  /\ (WasSetConfiguration /\ lastOp.ret = -EINVAL) =>
       /\ config = lastOp.was
       /\ lastOp.was = CDCECM_CONFIGID => AllEnabled(epen)
  /\ \A v \in ConfigValues :
       LET r == SetConfiguration(v, "none")
       IN  r.ret = -EINVAL =>
             \A c \in Range(r.st.calls) :
               c[1] \notin {"d_ifdown", "EP_DISABLE"}

\* C8: SET_CONFIGURATION with a 16-bit wValue that is neither 0 nor the
\* supported id returns -EINVAL and submits no reply on ep0.
C8_OtherValuesRejected ==
  (WasSetConfiguration
     /\ lastOp.arg \notin {CDCECM_CONFIGID_NONE, CDCECM_CONFIGID}) =>
    /\ lastOp.ret = -EINVAL
    /\ ~lastOp.reply

\* C9: SET_CONFIGURATION with the id the driver is already in returns
\* success, makes no call (no EP_CONFIGURE, EP_DISABLE, read submission,
\* d_ifup or d_ifdown) and changes no field of the driver.
C9_SameConfigurationIsNoOp ==
  /\ \A fail \in FailPoints :
       LET r == cdcecm_setconfig(Self, config, fail)
       IN  r.ret = OK /\ r.st = Self
  /\ (WasSetConfiguration /\ lastOp.arg = lastOp.was) =>
       (lastOp.ret = OK /\ config = lastOp.was)

\* C9, witness: an ACTIVE driver has just handled SET_CONFIGURATION with the
\* supported id and is as before: endpoints enabled, read posted, link up.
C9_ActiveAfterSameConfiguration ==
  /\ WasSetConfiguration
  /\ lastOp.arg = CDCECM_CONFIGID
  /\ lastOp.was = CDCECM_CONFIGID
  /\ lastOp.ret = OK
  /\ config = CDCECM_CONFIGID
  /\ AllEnabled(epen)
  /\ rdOut = 1
  /\ bifup

\* C10: after a disconnect delivered to an ACTIVE driver, config is NONE,
\* the three endpoints are disabled and the interface is down.
C10_DisconnectResets ==
  (lastOp.op = Request("none", "disconnect") /\ lastOp.was = CDCECM_CONFIGID) =>
    /\ config = CDCECM_CONFIGID_NONE
    /\ AllDisabled(epen)
    /\ ~bifup

\* C11: in every reachable state, config = NONE implies that all three
\* endpoints are disabled and the link is down (bifup false, IFF_UP clear),
\* and config = ACTIVE implies that all three endpoints are configured, the
\* read request is posted or awaiting drain (rxpending), and the link is up.
C11_ConfigurationStructure ==
  /\ config = CDCECM_CONFIGID_NONE =>
       AllDisabled(epen) /\ ~bifup /\ ~iffup
  /\ config = CDCECM_CONFIGID =>
       AllEnabled(epen) /\ (rdOut > 0 \/ rxpending) /\ bifup

\* The control request just handled called d_ifdown (cdcecm_resetconfig left
\* a configuration) or wrote the MAC address and called d_ifup (the
\* configuration was entered): exactly the requests that changed config.
ControlPathTouchedNetdev == WasSetConfiguration /\ config # lastOp.was

\* C12: every access to the network device record and the frame buffer is
\* made with the network lock held by the accessor, so at most one of the
\* interrupt work, the poll work and control-request handling touches that
\* state at a time: the interrupt work is between net_lock and net_unlock
\* whenever it dispatches, transmits or polls, so is the poll work, and the
\* d_ifup/d_ifdown calls of cdcecm_setconfig and cdcecm_resetconfig are not
\* made while a worker holds the lock.
C12_NetdevAccessUnderLock ==
  /\ pcIrq \in {"receive", "reply", "resubmit", "chktx", "clrtx", "txdone",
                "txpoll"} => netlock = "irq"
  /\ pcPoll = "txpoll" => netlock = "poll"
  /\ ControlPathTouchedNetdev => netlock = "free"

\* The result a bind is to return: the error of the first failing step.
FirstFailure(out) ==
  IF ~out["ctrlreq"] THEN -ENOMEM
  ELSE IF ~out["epint"] \/ ~out["epbulkin"] \/ ~out["epbulkout"] THEN -ENODEV
  ELSE IF ~out["rdreq"] \/ ~out["wrreq"] THEN -ENOMEM
  ELSE IF ~out["wrreq_idle"] THEN -EINVAL
  ELSE OK

\* C13: a bind in which a step failed has returned the error of the first
\* failing step and has run the unbind path: every endpoint and request
\* allocated was freed exactly once (no resource is ever freed more often
\* than it was allocated), every handle is null afterwards, and running
\* unbind again frees nothing.
C13_FailedBindUnwinds ==
  /\ \A r \in Resources : frees[r] <= allocs[r]
  /\ (lastBind.op = "bind" /\ lastBind.out # AllGranted) =>
       /\ lastBind.ret = FirstFailure(lastBind.out)
       /\ lastBind.ret # OK
       /\ \A r \in Resources : ~handle[r] /\ frees[r] = allocs[r]
       /\ cdcecm_unbind(Self, Handles).h = Handles

\* C13, witness: the write request was refused after the control request,
\* the three endpoints and the read request had been allocated.
C13_BindFailedAtWriteRequest ==
  /\ lastBind.op = "bind"
  /\ \A r \in Resources \ {"wrreq"} : lastBind.out[r]
  /\ ~lastBind.out["wrreq"]
  /\ frees["rdreq"] > 0 /\ frees["epbulkin"] > 0

\* C14: for every descriptor type and index served by the size-then-fill
\* protocol and every speed, the length returned by the size-only pass
\* equals the length returned by the fill pass and the number of bytes the
\* fill pass writes.
C14_SizePassEqualsFillPass ==
  dres.fn \in {"mkcfgdesc", "mkepdesc"} =>
    /\ dres.size = dres.fill.ret
    /\ dres.fill.ret = dres.fill.wrote

\* The first n characters of str as little-endian UTF-16.
Utf16le(str, n) ==
  [k \in 1..(2 * n) |-> IF k % 2 = 1 THEN str[(k + 1) \div 2] ELSE 0]

StringBuilt ==
  /\ dres.fn = "mkstrdesc"
  /\ HasString(dreq.id, dreq.build)

\* C15: for a source string longer than CDCECM_MAXSTRLEN/2 characters the
\* string builder succeeds, encodes exactly the first CDCECM_MAXSTRLEN/2
\* characters as little-endian UTF-16 and reports the length
\* 2*(CDCECM_MAXSTRLEN/2)+2; for every source string the reported length is
\* 2*min(strlen, CDCECM_MAXSTRLEN/2)+2, in the value returned and in the
\* one-byte length field alike (no wrap-around).
C15_StringTruncated ==
  StringBuilt =>
    LET str == SourceString(dreq.id, dreq.build, dreq.cfgstr)
        n == Min(Len(str), CDCECM_MAXSTRLEN \div 2)
    IN  /\ dres.desc.ret = 2 * n + 2
        /\ dres.desc.len = 2 * n + 2
        /\ dres.desc.type = USB_DESC_TYPE_STRING
        /\ dres.desc.data = Utf16le(str, n)
        /\ Len(str) > CDCECM_MAXSTRLEN \div 2 =>
             /\ dres.desc.ret = 2 * (CDCECM_MAXSTRLEN \div 2) + 2
             /\ Len(dres.desc.data) = 2 * (CDCECM_MAXSTRLEN \div 2)

\* C15, witness: a descriptor was built from a source string longer than
\* CDCECM_MAXSTRLEN/2 characters.
C15_LongStringBuilt ==
  /\ StringBuilt
  /\ Len(SourceString(dreq.id, dreq.build, dreq.cfgstr))
       > CDCECM_MAXSTRLEN \div 2
  /\ dres.desc.ret > 0

\* The fields of the driver instance.
instance == <<config, epen, rdOut, rdBuf, rxpending, wrOut, wrBuf, wrreq_idle,
              txdone, bifup, iffup, d_buf, d_len, irqwork, pollwork, handle,
              speed>>

DescType(value) == (value \div U8) % U8

\* C16: GET_DESCRIPTOR with a descriptor type other than Device,
\* Configuration, Other-Speed-Configuration or String returns not supported,
\* queues no reply on the control endpoint and leaves every field of the
\* driver instance unchanged, the recorded USB speed included.
C16_UnknownDescriptorChangesNothing ==
  [][(/\ lastOp = NoOp
      /\ lastOp'.op = Request("STANDARD", "GETDESCRIPTOR")
      /\ DescType(lastOp'.arg) \notin
           {USB_DESC_TYPE_DEVICE, USB_DESC_TYPE_CONFIG,
            USB_DESC_TYPE_OTHERSPEEDCONFIG, USB_DESC_TYPE_STRING})
       => /\ lastOp'.ret = -ENOTSUP
          /\ ~lastOp'.reply
          /\ UNCHANGED instance]_vars

\* The setup packets cdcecm_setup handles.
Handled ==
  {Request("STANDARD", "GETDESCRIPTOR"), Request("STANDARD", "SETCONFIGURATION"),
   Request("STANDARD", "SETINTERFACE"), Request("CLASS", "SET_PACKET_FILTER")}

\* C17: a control request whose type is neither standard nor class, or
\* whose request code is none of GET_DESCRIPTOR, SET_CONFIGURATION,
\* SET_INTERFACE (standard) and SET_ETHERNET_PACKET_FILTER (class), returns
\* not supported, queues nothing on the control endpoint and changes no
\* driver state.
C17_UnhandledRequestRejected ==
  [][(/\ lastOp = NoOp
      /\ lastOp'.op[1] \in ReqTypes
      /\ lastOp'.op \notin Handled)
       => /\ lastOp'.ret = -EOPNOTSUPP
          /\ ~lastOp'.reply
          /\ UNCHANGED instance]_vars

\* C17, witness: a vendor request, and a class request with a standard
\* request code, have been rejected.
C17_VendorRequestRejected ==
  /\ lastOp.op \in {Request("VENDOR", "OTHER"), Request("CLASS", "SETCONFIGURATION")}
  /\ lastOp.ret = -EOPNOTSUPP
  /\ config = CDCECM_CONFIGID

\* cdcecm_interrupt_work has left the block that drains a received frame.
Drained == pcIrq = "chktx"

\* C18: when cdcecm_interrupt_work has drained a successfully received IPv4
\* frame for which the stack produced no reply (d_len 0 after ipv4_input),
\* it has submitted the read request exactly once and has made no
\* submission on bulk-IN.
C18_NoReplyResubmitsOnly ==
  (Drained /\ rxWork.type = "IP" /\ rxWork.reply = 0)
    => (rxWork.reads = 1 /\ rxWork.writes = 0)

\* An IPv4 frame without a reply has been drained while the driver is
\* configured and the read is posted again.
C18_SilentIPv4Drained ==
  /\ Drained
  /\ rxWork = [type |-> "IP", reply |-> 0, reads |-> 1, writes |-> 0]
  /\ d_buf = "IP"
  /\ d_len = 0
  /\ rdOut = 1
  /\ ~rxpending

ReadFailed ==
  /\ lastOp = NoOp
  /\ lastOp'.op = Request("bulk-OUT", "complete")
  /\ lastOp'.arg # OK

\* The calls cdcecm_rdcomplete makes for a result, whatever the controller
\* answers to a submission.
ReadSubmissions(result) ==
  {SelectSeq(cdcecm_rdcomplete([Self EXCEPT !.rdOut = @ - 1], result,
                               NoFrame, ok).calls,
             LAMBDA c : c = <<"EP_SUBMIT", "epbulkout">>) : ok \in BOOLEAN}

\* C20: a read completion with -ESHUTDOWN sets no flag, queues no work and
\* does not submit the read again (the completed request is gone and none
\* is posted); a read completion with any other non-zero result leaves
\* rxpending as it was, queues no cdcecm_interrupt_work and submits the
\* read request exactly once.
C20_ReadErrorCompletion ==
  [][ReadFailed =>
       /\ rxpending' = rxpending
       /\ txdone' = txdone
       /\ irqwork' = irqwork
       /\ pollwork' = pollwork
       /\ rdBuf' = rdBuf
       /\ IF lastOp'.arg = -ESHUTDOWN
            THEN /\ ~lastOp'.reply
                 /\ rdOut' = rdOut - 1
                 /\ ReadSubmissions(-ESHUTDOWN) = {<<>>}
            ELSE /\ lastOp'.reply
                 /\ rdOut' \in {rdOut - 1, rdOut}
                 /\ ReadSubmissions(lastOp'.arg)
                      = {<< <<"EP_SUBMIT", "epbulkout">> >>}]_vars

\* cdcecm_rdcomplete has handled an I/O error of the read and posted the
\* read request again, with the driver configured and no frame pending.
C20_ReadErrorResubmitted ==
  /\ lastOp.op = Request("bulk-OUT", "complete")
  /\ lastOp.arg = -EIO
  /\ lastOp.reply
  /\ config = CDCECM_CONFIGID
  /\ rdOut = 1
  /\ ~rxpending
  /\ ~irqwork

\* The step is a call of cdcecm_txavail.
TxAvailCalled ==
  /\ lastOp = NoOp
  /\ lastOp'.op = Request("netdev", "txavail")

\* The worker thread takes cdcecm_txavail_work off the queue: a poll pass
\* begins.
PollPassBegins == pcPoll = "idle" /\ pcPoll' = "lock"

\* C21: cdcecm_txavail neither polls the stack nor submits a transfer
\* itself; it queues the poll work only when the work is not pending, and a
\* notification that finds it pending changes nothing, so the
\* notifications that arrive before the poll work runs are served by one
\* poll pass: a pass begins only with the work queued and takes it off the
\* queue.
C21_TxAvailCoalesces ==
  [][(TxAvailCalled =>
        /\ pollwork'
        /\ lastOp'.reply = ~pollwork
        /\ UNCHANGED <<d_buf, d_len, wrBuf, wrOut, wrreq_idle, pcPoll,
                       pcIrq, netlock, irqwork, txdone>>
        /\ (pollwork => UNCHANGED <<pollwork, pcPoll, bufVars, rdOut>>))
     /\ (PollPassBegins => (pollwork /\ ~pollwork'))]_vars

\* A second notification has arrived while the poll work was still queued
\* and had not started.
C21_BurstCoalesced ==
  /\ lastOp.op = Request("netdev", "txavail")
  /\ ~lastOp.reply
  /\ pollwork
  /\ pcPoll = "idle"

\* cdcecm_interrupt_work is running and has not yet passed the critical
\* section that clears txdone.
BeforeClearTx == pcIrq \in {"lock", "receive", "reply", "resubmit", "chktx",
                            "clrtx"}

\* A transmitter waits for wrreq_idle and nothing can post it: no write is
\* outstanding whose completion would.
GateLost == TransmitterAtGate /\ wrreq_idle = 0 /\ wrOut = 0

\* While txdone is set, cdcecm_interrupt_work is queued or is running ahead
\* of its check-and-clear of the flag.
TxdoneHasWork == txdone => (irqwork \/ BeforeClearTx)

\* C22: a txdone set by a write completion is drained: no completion is
\* lost (the interrupt work that is to clear the flag is queued or running
\* ahead of its check-and-clear), and that work is not held up for ever
\* behind a transmitter that waits for a gate nothing will post.
C22_TxdoneDrained == TxdoneHasWork /\ (txdone => ~GateLost)

\* cdcecm_interrupt_work is queued or waits in net_lock.
IrqWorkWaits == irqwork \/ pcIrq = "lock"

\* cdcecm_txavail_work is queued or waits in net_lock.
PollWorkWaits == pollwork \/ pcPoll = "lock"

\* C23: neither work starves the other: the work that is queued or waits
\* for the network lock is never behind the other work holding the lock in
\* cdcecm_transmit at a gate that nothing will post (no transfer is
\* outstanding, so every submitted transfer has completed).
C23_NoSlotStarved ==
  GateLost =>
    /\ pcPoll = "txpoll" => ~IrqWorkWaits
    /\ pcIrq \in {"reply", "txpoll"} => ~PollWorkWaits

\* The step is cdcecm_setup handling a SET_CONFIGURATION that gets as far as
\* the first EP_CONFIGURE: the id is the supported one and it is not the
\* current configuration.
ConfiguresEndpoints ==
  /\ lastOp = NoOp
  /\ lastOp'.op = Request("STANDARD", "SETCONFIGURATION")
  /\ lastOp'.arg % U8 = CDCECM_CONFIGID
  /\ config # CDCECM_CONFIGID

\* C24: no endpoint is configured twice without a disable in between: when
\* cdcecm_setconfig goes on to configure the endpoints, after its call of
\* cdcecm_resetconfig all three endpoints are disabled, also when the
\* previous SET_CONFIGURATION failed part-way.
C24_ConfiguredFromDisabled ==
  [][ConfiguresEndpoints => AllDisabled(cdcecm_resetconfig(Self).epen)]_vars

\* cdcecm_setup has handled a request and not failed.
HandledSuccessfully == lastOp.op \in Handled /\ lastOp.ret >= 0

\* C25: every control request the dispatcher handles successfully
\* (GET_DESCRIPTOR of a served descriptor, SET_CONFIGURATION, SET_INTERFACE,
\* SET_ETHERNET_PACKET_FILTER) returns a positive length to the controller
\* and, in a build that is not composite, has its reply queued on ep0.
C25_SuccessReturnsLength ==
  HandledSuccessfully => (lastOp.ret > 0 /\ lastOp.reply)

\* The step is cdcecm_setup whose reply the controller refused on ep0.
ReplyRefused ==
  /\ lastOp = NoOp
  /\ lastOp'.op[1] \in ReqTypes
  /\ lastOp'.reply
  /\ lastOp'.ret < 0

\* The local completions of the control request in a call of cdcecm_setup
\* whose reply is refused: the ctrlreq->result each cdcecm_ep0incomplete is
\* called with.
LocalCompletions(pkt, fail, devspeed) ==
  LET r == cdcecm_setup(Self, devspeed, pkt[1], pkt[2], pkt[3], fail, FALSE)
  IN  SelectSeq(r.st.calls, LAMBDA c : c[1] = "cdcecm_ep0incomplete")

\* C26: when the submission of the control reply fails, cdcecm_setup
\* returns the error of the submission, has set ctrlreq->result to OK and
\* called cdcecm_ep0incomplete exactly once, and the control request stays
\* allocated to the driver.
C26_RefusedReplyCompletedLocally ==
  [][ReplyRefused =>
       /\ lastOp'.ret = -EIO
       /\ handle'["ctrlreq"]
       /\ \A fail \in FailPoints, devspeed \in DevSpeeds :
            LET pkt == <<lastOp'.op[1], lastOp'.op[2], lastOp'.arg>>
                handled == cdcecm_setup(Self, devspeed, pkt[1], pkt[2],
                                        pkt[3], fail, FALSE).inner >= 0
            IN  handled =>
                  LocalCompletions(pkt, fail, devspeed)
                    = << <<"cdcecm_ep0incomplete", OK>> >>]_vars

\* A GET_DESCRIPTOR whose reply the controller refused has returned the
\* error, and the driver still holds its control request.
C26_DescriptorReplyRefused ==
  /\ lastOp.op = Request("STANDARD", "GETDESCRIPTOR")
  /\ lastOp.reply
  /\ lastOp.ret = -EIO
  /\ handle["ctrlreq"]

\* The step is cdcecm_setup handling SET_ETHERNET_PACKET_FILTER.
FilterSet ==
  /\ lastOp = NoOp
  /\ lastOp'.op = Request("CLASS", "SET_PACKET_FILTER")

\* C27: SET_ETHERNET_PACKET_FILTER with any filter bitmap, in any
\* configuration state, is accepted: the handler succeeds, a reply of
\* length 0 is queued on ep0 whatever wLength asks for, the request returns
\* OK when the controller takes the reply, and no configuration, endpoint,
\* flag, gate or link state changes.
C27_PacketFilterAccepted ==
  [][FilterSet =>
       /\ lastOp'.reply
       /\ UNCHANGED instance
       /\ \A ep0ok \in BOOLEAN :
            LET r == cdcecm_setup(Self, speed, "CLASS", "SET_PACKET_FILTER",
                                  lastOp'.arg, "none", ep0ok)
            IN  /\ r.inner = OK
                /\ ep0ok => (r.ret = OK /\ lastOp'.ret \in {OK, -EIO})
                /\ \A wLength \in WLengths : ReplyLen(wLength, r.inner) = 0]_vars

\* A packet filter with all bits set has been accepted by the configured
\* driver, which is still configured.
C27_FilterAcceptedWhileActive ==
  /\ lastOp.op = Request("CLASS", "SET_PACKET_FILTER")
  /\ lastOp.arg = U16 - 1
  /\ lastOp.ret = OK
  /\ lastOp.reply
  /\ config = CDCECM_CONFIGID
  /\ AllEnabled(epen)

\* The channels of a table in slot order, free slots left out.
Registered(table) == SelectSeq(table, LAMBDA c : c # NULL)

\* Every channel of the table precedes every free slot.
NoHoles(table) ==
  \A i, j \in 1..Len(table) : (i < j /\ table[i] = NULL) => table[j] = NULL

\* C28: in a table of more than one slot, after any sequence of
\* syslog_channel and syslog_channel_remove calls every non-NULL entry
\* precedes every NULL entry, and a removal leaves the other channels in
\* the order they had.
C28_TableHasNoHoles ==
  Len(g_syslog_channel) > 1 =>
    /\ NoHoles(g_syslog_channel)
    /\ (/\ lastChannelOp.op = "syslog_channel_remove"
        /\ lastChannelOp.ret = OK
        /\ ~lastChannelOp.asserted)
         => Registered(g_syslog_channel)
              = SelectSeq(lastChannelOp.was,
                          LAMBDA c : c \notin {NULL, lastChannelOp.channel})

\* A channel was removed from between two others in a full table.
C28_MiddleChannelRemoved ==
  /\ Len(g_syslog_channel) = MaxChannels
  /\ lastChannelOp.op = "syslog_channel_remove"
  /\ lastChannelOp.ret = OK
  /\ NULL \notin Range(lastChannelOp.was)
  /\ lastChannelOp.was[2] = lastChannelOp.channel

\* The last call was of the function fn and has returned or stopped.
Called(fn) == lastChannelOp.op = fn

\* The last call returned ret and left the table as it was.
Refused(ret) ==
  /\ ~lastChannelOp.asserted
  /\ lastChannelOp.ret = ret
  /\ g_syslog_channel = lastChannelOp.was

\* The table the last call found had no free slot and did not hold the
\* channel.
WasFullWithout ==
  /\ NULL \notin Range(lastChannelOp.was)
  /\ lastChannelOp.channel \notin Range(lastChannelOp.was)

\* What holds of syslog_channel_remove with a channel that is not NULL: an
\* unknown channel is refused, a registered one is removed from every slot.
RemoveContract ==
  (Called("syslog_channel_remove") /\ lastChannelOp.channel # NULL) =>
    IF lastChannelOp.channel \in Range(lastChannelOp.was)
      THEN /\ ~lastChannelOp.asserted
           /\ lastChannelOp.ret = OK
           /\ lastChannelOp.channel \notin Range(g_syslog_channel)
      ELSE Refused(-EINVAL)

\* C29, as stated: syslog_channel returns -EINVAL and leaves the table
\* unchanged when the channel is NULL or when the table is full and does
\* not contain the channel; syslog_channel_remove returns -EINVAL and
\* leaves the table unchanged when the channel is not in the table;
\* removing a registered channel returns OK and afterwards the channel is
\* in no slot.
C29_RefusalsAsStated ==
  /\ (Called("syslog_channel")
        /\ (lastChannelOp.channel = NULL \/ WasFullWithout))
       => Refused(-EINVAL)
  /\ RemoveContract

\* C29, amended: in a build without debug assertions syslog_channel returns
\* -EINVAL and leaves the table unchanged when the channel is NULL (with
\* debug assertions the call stops in DEBUGASSERT, the table unchanged);
\* in a table of more than one slot it does so when the table is full and
\* does not contain the channel, while a table of one slot takes the new
\* channel in place of the old one and returns OK.  syslog_channel_remove
\* is as stated for a channel that is not NULL, and treats NULL as
\* syslog_channel does.
C29_RefusalsByBuild ==
  /\ (lastChannelOp.op # "none" /\ lastChannelOp.channel = NULL) =>
       IF debugAssertions
         THEN lastChannelOp.asserted
                /\ g_syslog_channel = lastChannelOp.was
         ELSE Refused(-EINVAL)
  /\ (Called("syslog_channel") /\ lastChannelOp.channel # NULL
        /\ WasFullWithout) =>
       IF Len(lastChannelOp.was) > 1
         THEN Refused(-EINVAL)
         ELSE /\ ~lastChannelOp.asserted
              /\ lastChannelOp.ret = OK
              /\ g_syslog_channel = <<lastChannelOp.channel>>
  /\ RemoveContract

\* syslog_channel has refused a channel that the full table of the largest
\* size does not hold.
C29_FullTableRefused ==
  /\ Called("syslog_channel")
  /\ Len(lastChannelOp.was) = MaxChannels
  /\ WasFullWithout
  /\ lastChannelOp.channel # NULL
  /\ Refused(-EINVAL)

\* The positions at which the needle occurs in the haystack.
Occurrences(area, needle) ==
  {k \in 1..(Len(area) - Len(needle) + 1) :
     SubSeq(area, k, k + Len(needle) - 1) = needle}

\* The needle-length branch of memmem a call takes.
Branch(needlelen) ==
  IF needlelen <= 1 THEN needlelen
  ELSE IF needlelen < LONG_INT_N_BYTES THEN 2
  ELSE needlelen - LONG_INT_N_BYTES + 3

\* C30: for every haystack and needle, memmem returns the position of the
\* first occurrence of the needle in the haystack, or NULL when there is
\* none, in each of its needle-length branches; an empty needle returns
\* the start of the haystack.
C30_MemmemFindsFirst ==
  dres.fn = "memmem" =>
    LET found == Occurrences(dreq.haystack, dreq.needle)
    IN  /\ dreq.needle = <<>> => dres.ret = 1
        /\ (dreq.needle # <<>> /\ found = {}) => dres.ret = NULL
        /\ (dreq.needle # <<>> /\ found # {}) =>
             (dres.ret \in found /\ \A k \in found : dres.ret <= k)

\* A needle longer than sizeof(long) + 1 was found behind a window with
\* the same sum of bytes that is no occurrence.
C30_LongNeedleFoundLate ==
  /\ dres.fn = "memmem"
  /\ Branch(Len(dreq.needle)) = 5
  /\ dres.ret = 2
  /\ Sum(SubSeq(dreq.haystack, 1, Len(dreq.needle))) = Sum(dreq.needle)

\* The step is a read completion with status ok.
ReadCompletedOk ==
  /\ lastOp = NoOp
  /\ lastOp'.op = Request("bulk-OUT", "complete")
  /\ lastOp'.arg = OK

\* The frame of the last ok completion is still in the read buffer: the
\* interrupt work has not yet copied it out.
FrameInReadBuffer == rxpending /\ pcIrq \notin {"reply", "resubmit"}

\* C31: each read completion with status ok is followed by one dispatch of
\* that frame and then one re-submission of the read: a frame completes only
\* when none is waiting for its dispatch, it flags rxpending and queues the
\* interrupt work, nothing changes the read buffer and no read is submitted
\* while the frame is still in the read buffer, and rxpending is cleared
\* only by the re-submission that follows the dispatch.
C31_FrameDispatchedOnce ==
  [][/\ ReadCompletedOk => (~rxpending /\ rxpending' /\ irqwork')
     /\ FrameInReadBuffer => (rdBuf' = rdBuf /\ rdOut' <= rdOut)
     /\ (rxpending /\ ~rxpending') =>
          (pcIrq = "resubmit" /\ rxWork.type = rdBuf.type /\ rxWork.reads = 0)
    ]_vars

\* The count of wrreq_idle stays within the capacity of one.
GateWithinCapacity == wrreq_idle \in {0, 1}

\* C32: the count of the write gate is always 0 or 1, and it is 0 exactly
\* while a write is outstanding on bulk-IN.
C32_GateTracksWrite ==
  /\ GateWithinCapacity
  /\ wrreq_idle = 0 <=> wrOut = 1

\* The calls and assignments of one run that the order of a configuration
\* change is about.
ConfigSteps(calls) ==
  SelectSeq(calls, LAMBDA c : c[1] \in {"config", "d_ifdown", "d_ifup",
                                       "EP_DISABLE", "EP_CONFIGURE"}
                              \/ c = <<"EP_SUBMIT", "epbulkout">>)

ResetOrder ==
  << <<"config", "NONE">>, <<"d_ifdown">>, <<"EP_DISABLE", "epint">>,
     <<"EP_DISABLE", "epbulkin">>, <<"EP_DISABLE", "epbulkout">> >>

EstablishOrder ==
  << <<"EP_CONFIGURE", "epint">>, <<"EP_CONFIGURE", "epbulkin">>,
     <<"EP_CONFIGURE", "epbulkout">>, <<"EP_SUBMIT", "epbulkout">>,
     <<"config", "ACTIVE">>, <<"d_ifup">> >>

\* How far cdcecm_setconfig gets when the controller rejects step fail.
StepsDone(fail) ==
  CASE fail = "epint"     -> 1
    [] fail = "epbulkin"  -> 2
    [] fail = "epbulkout" -> 3
    [] fail = "submit"    -> 4
    [] OTHER              -> Len(EstablishOrder)

\* C33: resetting an ACTIVE configuration sets config to NONE, then calls
\* interface-down, then disables interrupt-IN, bulk-IN and bulk-OUT, in this
\* order.  Establishing a configuration configures interrupt-IN, bulk-IN and
\* bulk-OUT in this order, posts the read only after the three were
\* configured, and sets config to ACTIVE and calls interface-up only after
\* the read was posted successfully.
C33_ConfigurationOrder ==
  /\ config # CDCECM_CONFIGID_NONE =>
       ConfigSteps(SetConfiguration(CDCECM_CONFIGID_NONE, "none").st.calls)
         = ResetOrder
  /\ config = CDCECM_CONFIGID_NONE =>
       \A fail \in FailPoints :
         ConfigSteps(SetConfiguration(CDCECM_CONFIGID, fail).st.calls)
           = SubSeq(EstablishOrder, 1, StepsDone(fail))

\* C33, witness: an ACTIVE configuration, established from NONE, was reset
\* by SET_CONFIGURATION(0).
C33_ActiveWasReset ==
  /\ WasSetConfiguration
  /\ lastOp.arg = CDCECM_CONFIGID_NONE
  /\ lastOp.was = CDCECM_CONFIGID
  /\ config = CDCECM_CONFIGID_NONE

\* What cdcecm_receive does with the frame in the read buffer when the
\* stack answers with a reply of length reply.
Receives(reply) == cdcecm_receive(rdBuf, reply, build.net)

\* cdcecm_interrupt_work is about to call cdcecm_receive.
AtReceive == pcIrq = "receive"

\* The frame being received is of the given type and was dropped.
DroppedFrame(types) ==
  /\ Drained
  /\ rxWork.type \in types
  /\ rxWork.reads = 1

PollWorkRuns == pcPoll = "lock" /\ pcPoll' # "lock"

\* C35: the poll work polls the stack only if the interface is up when it
\* runs under the network lock: with bifup clear it returns without a poll
\* (d_buf and d_len untouched, cdcecm_txpoll not called) and without a
\* submission on bulk-IN, and it holds the lock only while it runs.
C35_PollOnlyWhenUp ==
  [][PollWorkRuns =>
       /\ netlock = "free"
       /\ wrOut' = wrOut
       /\ ~bifup => /\ pcPoll' = "idle"
                    /\ netlock' = "free"
                    /\ <<d_buf, d_len, wrBuf, wrreq_idle>>'
                         = <<d_buf, d_len, wrBuf, wrreq_idle>>
       /\ pcPoll' = "txpoll" => (bifup /\ netlock' = "poll")
    ]_vars

\* C35, witness: the poll work was queued while the driver is ACTIVE and is
\* about to run after the stack took the interface down.
C35_WentDownBeforePoll ==
  /\ pcPoll = "lock"
  /\ netlock = "free"
  /\ config = CDCECM_CONFIGID
  /\ iffup
  /\ ~bifup

\* The step leaves config at NONE.
StaysNone == config = CDCECM_CONFIGID_NONE /\ config' = CDCECM_CONFIGID_NONE

\* The step is cdcecm_interrupt_work calling EP_SUBMIT(epbulkout, rdreq).
WorkSubmitsRead == pcIrq = "resubmit" /\ pcIrq' # "resubmit"

\* The step is cdcecm_transmit getting past the gate: it calls
\* EP_SUBMIT(epbulkin, wrreq).
TransmitSubmits == wrreq_idle' < wrreq_idle

\* C36: while config is NONE the driver submits no read on bulk-OUT and no
\* write on bulk-IN: neither its deferred work nor a completion handler
\* calls EP_SUBMIT, and no transfer becomes outstanding.
C36_NoSubmissionWhileNone ==
  [][StaysNone =>
       /\ ~WorkSubmitsRead
       /\ ~TransmitSubmits
       /\ wrOut' <= wrOut
       /\ lastOp'.op = Request("bulk-OUT", "complete") => ~lastOp'.reply
    ]_vars

\* C37: every acquisition of the write gate by cdcecm_transmit is followed
\* by a release.  In its finite form: whenever the gate is held a write is
\* outstanding on bulk-IN, whose completion will post it, so that no
\* cdcecm_transmit waits at a gate that nothing can release while it holds
\* the network lock.
C37_HeldGateIsReleased ==
  /\ wrreq_idle = 0 => wrOut > 0
  /\ ~(TransmitterAtGate /\ netlock # "free" /\ wrreq_idle = 0 /\ wrOut = 0)

\* cdcecm_unbind has freed the read and the write request.
RequestsFreed == ~handle["rdreq"] /\ ~handle["wrreq"]

\* Neither work of the driver is queued or running on a worker thread.
NoWorkLeft ==
  /\ ~irqwork /\ pcIrq = "idle"
  /\ ~pollwork /\ pcPoll = "idle"

\* C38: once cdcecm_unbind has freed the requests and the endpoints, no
\* interrupt work and no poll work of the driver is pending or running, and
\* none is scheduled afterwards.
C38_NoWorkAfterUnbind == RequestsFreed => NoWorkLeft

\* The step is cdcecm_setup queueing a reply on ep0.
ReplyQueued == lastOp = NoOp /\ lastOp'.op[1] \in ReqTypes /\ lastOp'.reply

\* The values of wLength around the length produced, with the least and
\* the greatest 16-bit values.
LengthsAround(produced) ==
  (WLengths \cup {produced - 1, produced, produced + 1}) \cap (0..(U16 - 1))

\* C39: the control reply has length min(wLength, length produced by the
\* handler): it exceeds neither the length the host asked for nor the
\* number of bytes the handler produced, and it is one of the two.
C39_ReplyLengthIsMinimum ==
  [][ReplyQueued =>
       LET pkt == [ctype |-> lastOp'.op[1], req |-> lastOp'.op[2],
                   value |-> lastOp'.arg]
       IN  \A fail \in FailPointsOf(pkt), devspeed \in DevSpeedsOf(pkt) :
             LET produced == cdcecm_setup(Self, devspeed, pkt.ctype, pkt.req,
                                          pkt.value, fail, TRUE).inner
             IN  produced >= 0 =>
                   \A wLength \in LengthsAround(produced) :
                     /\ ReplyLen(wLength, produced) <= wLength
                     /\ ReplyLen(wLength, produced) <= produced
                     /\ ReplyLen(wLength, produced) \in {wLength, produced}
    ]_vars

\* C39, witness: the configuration descriptor, longer than the 64 bytes of
\* one control packet, was produced and its reply queued.
C39_LongDescriptorReplied ==
  /\ lastOp.op = Request("STANDARD", "GETDESCRIPTOR")
  /\ lastOp.arg \div U8 = USB_DESC_TYPE_CONFIG
  /\ lastOp.reply
  /\ lastOp.ret = OK
  /\ cdcecm_getdescriptor(Self, USB_DESC_TYPE_CONFIG, 0) > 64

\* The slots of the table that hold the channel.
SlotsOf(table, channel) == {i \in 1..Len(table) : table[i] = channel}

\* The first free slot of the table (0: there is none).
FirstFree(table) ==
  IF SlotsOf(table, NULL) = {} THEN 0
  ELSE CHOOSE i \in SlotsOf(table, NULL) : \A j \in SlotsOf(table, NULL) : i <= j

\* syslog_channel was called with a channel and has returned.
Registering ==
  /\ Called("syslog_channel")
  /\ lastChannelOp.channel # NULL
  /\ ~lastChannelOp.asserted

\* C40: registering a channel that is already in the table returns OK and
\* leaves the table unchanged; after any sequence of syslog_channel and
\* syslog_channel_remove calls no channel is in two slots; a new channel is
\* placed in the first free slot, the other slots unchanged.
C40_NoChannelTwice ==
  /\ \A c \in Channels : Cardinality(SlotsOf(g_syslog_channel, c)) <= 1
  /\ (Registering /\ SlotsOf(lastChannelOp.was, lastChannelOp.channel) # {})
       => (lastChannelOp.ret = OK /\ g_syslog_channel = lastChannelOp.was)
  /\ (/\ Registering
      /\ SlotsOf(lastChannelOp.was, lastChannelOp.channel) = {}
      /\ FirstFree(lastChannelOp.was) # 0)
       => /\ lastChannelOp.ret = OK
          /\ g_syslog_channel =
               [lastChannelOp.was EXCEPT ![FirstFree(lastChannelOp.was)] =
                                           lastChannelOp.channel]

\* C40, witness: a channel in the second slot of a table with a free slot
\* behind it was registered once more.
C40_RegisteredAgain ==
  /\ Registering
  /\ Len(lastChannelOp.was) = MaxChannels
  /\ lastChannelOp.was[2] = lastChannelOp.channel
  /\ lastChannelOp.was[MaxChannels] = NULL
  /\ lastChannelOp.ret = OK
  /\ g_syslog_channel = lastChannelOp.was

=============================================================================
